---- MODULE Spec2Model ----
(***************************************************************************)
(* Model of functions/src/index.ts of group-expenses-server: the Firestore *)
(* documents the cloud functions keep (groups, their members and expenses, *)
(* users and their mirrors), the callable endpoints, the write-triggered   *)
(* handlers and the scheduled recurrence / balance job.                    *)
(*                                                                         *)
(* A document is a record with an `exists` flag; an absent document is the *)
(* No... record of its collection.  A trigger that the store has raised    *)
(* and whose handler has not run yet is an element of `events`.            *)
(***************************************************************************)
EXTENDS Integers, FiniteSets, Sequences, TLC

VARIABLES
    groups,        \* groups/{g}
    members,       \* groups/{g}/members/{u}
    expenses,      \* groups/{g}/expenses/{e}
    payments,      \* groups/{g}/payments/{p}
    users,         \* users/{u}
    userExpenses,  \* users/{u}/expenses/{e}
    userGroups,    \* users/{u}/groups/{g}
    userPayments,  \* users/{u}/payments/{p}
    events,        \* triggers raised by the store, handler not yet run
    tasks,         \* invocations in flight: position and local variables
    writes,        \* writes issued without await, not yet applied
    now,           \* the clock, in days
    lastCall,      \* outcome of the callable / handler step taken last
    nCalls,        \* number of external calls and client writes made so far
    nextId,        \* number of expense ids the store has handed out
    stale          \* history: some read-modify-write overwrote a newer value

vars == <<groups, members, expenses, payments, users, userExpenses, userGroups,
          userPayments, events, tasks, writes, now, lastCall, nCalls, nextId, stale>>

----------------------------------------------------------------------------
(* Bounds of the model *)

GroupIds == {"g1", "g2"}
UserIds == {"u1", "u2"}
MaxExpenses == 4
ExpenseIds == 1..MaxExpenses
MaxCost == 2
Costs == 1..MaxCost

----------------------------------------------------------------------------
(* JavaScript numbers: a field read from a missing document is undefined,  *)
(* and arithmetic on undefined or NaN yields NaN.                          *)

NaN == -1000000
Undefined == -2000000

IsNum(x) == x # NaN /\ x # Undefined

JsSub(a, b) == IF IsNum(a) /\ IsNum(b) THEN a - b ELSE NaN

JsAdd(a, b) == IF IsNum(a) /\ IsNum(b) THEN a + b ELSE NaN

\* current - before + after, as every aggregate update computes it
Delta(current, before, after) == JsAdd(JsSub(current, before), after)

----------------------------------------------------------------------------
(* Documents *)

NoGroup == [exists |-> FALSE, totalExpenses |-> Undefined,
            totalPayments |-> Undefined, numMembers |-> Undefined]

NewGroup == [exists |-> TRUE, totalExpenses |-> 0, totalPayments |-> 0,
             numMembers |-> 0]

NoMember == [exists |-> FALSE, role |-> "undefined", totalExpenses |-> Undefined,
             totalPayments |-> Undefined, alreadyRecurred |-> FALSE]

NewMember(role) == [exists |-> TRUE, role |-> role, totalExpenses |-> 0,
                    totalPayments |-> 0, alreadyRecurred |-> FALSE]

NoExpense == [exists |-> FALSE, cost |-> Undefined, userId |-> "undefined",
              date |-> 0, recurring |-> FALSE, alreadyRecurred |-> FALSE,
              recurringInterval |-> 0, name |-> "undefined", source |-> 0]

NoPayment == [exists |-> FALSE, payment |-> Undefined, userId |-> "undefined"]

\* no group has a payment
NoPayments == [p \in GroupIds \X ExpenseIds |-> NoPayment]

NoUser == [exists |-> FALSE, totalExpenses |-> Undefined,
           totalPayments |-> Undefined, numGroups |-> Undefined,
           expensesCount |-> Undefined, paymentsCount |-> Undefined,
           maxNegativeBalance |-> Undefined]

NewUser == [exists |-> TRUE, totalExpenses |-> 0, totalPayments |-> 0,
            numGroups |-> 0, expensesCount |-> 0, paymentsCount |-> 0,
            maxNegativeBalance |-> 0]

NoUserExpense == [exists |-> FALSE, cost |-> Undefined, groupId |-> "undefined"]

NoUserPayment == [exists |-> FALSE, payment |-> Undefined]

NoUserGroup == [exists |-> FALSE, personalExpenses |-> Undefined,
                personalPayments |-> Undefined, totalExpenses |-> Undefined,
                numMembers |-> Undefined]

----------------------------------------------------------------------------
(* Sums over the source records *)

RECURSIVE SumOver(_, _)
SumOver(S, f) ==
    IF S = {} THEN 0
    ELSE LET x == CHOOSE y \in S : TRUE
         IN  f[x] + SumOver(S \ {x}, f)

\* the cost an expense slot contributes to a sum for group g (and user u)
GroupCost(g) == [e \in ExpenseIds |->
                    IF expenses[g, e].exists THEN expenses[g, e].cost ELSE 0]

MemberCost(g, u) == [e \in ExpenseIds |->
                    IF expenses[g, e].exists /\ expenses[g, e].userId = u
                    THEN expenses[g, e].cost ELSE 0]

SumGroupExpenses(g) == SumOver(ExpenseIds, GroupCost(g))

SumMemberExpenses(g, u) == SumOver(ExpenseIds, MemberCost(g, u))

UserCost(u) == [g \in GroupIds |-> SumMemberExpenses(g, u)]

SumUserExpenses(u) == SumOver(GroupIds, UserCost(u))

----------------------------------------------------------------------------
(* Helpers shared by the handlers *)

\* createUserDocIfNotExists: the users collection after the call
createUserDocIfNotExists(us, uid) ==
    IF us[uid].exists THEN us ELSE [us EXCEPT ![uid] = NewUser]

\* setGroupMemberExpenses: a merge-set of totalExpenses on the member
\* document, which creates the document when it is absent
setGroupMemberExpenses(ms, g, uid, costBefore, costAfter) ==
    LET groupMemberData == ms[g, uid]
    IN  [ms EXCEPT ![g, uid] =
            [groupMemberData EXCEPT
                !.exists = TRUE,
                !.totalExpenses =
                    Delta(groupMemberData.totalExpenses, costBefore, costAfter)]]

\* the {cost, groupId} part of the userExpense object the handler mirrors
UserExpenseOf(g, cost) == [exists |-> TRUE, cost |-> cost, groupId |-> g]

\* the onWrite trigger of users/{u}/expenses/{e}; a write that changes
\* nothing raises no trigger
UserExpenseTrigger(u, e, before, after) ==
    IF before = after THEN {}
    ELSE {[kind |-> "userExpense", g |-> "undefined", u |-> u, e |-> e,
           before |-> before, after |-> after]}

GroupExpenseTrigger(g, e, before, after) ==
    IF before = after THEN {}
    ELSE {[kind |-> "groupExpense", g |-> g, u |-> "undefined", e |-> e,
           before |-> before, after |-> after]}

\* what the step taken last did: the call or handler, its arguments, the
\* line it had reached and what it returned or threw
Outcome(op, g, u, e, result) ==
    [id |-> 0, op |-> op, g |-> g, u |-> u, arg |-> "undefined", e |-> e,
     pc |-> "return", result |-> result, removed |-> FALSE, empty |-> FALSE,
     admin |-> FALSE]

----------------------------------------------------------------------------
(* onGroupExpensesWrite, run from its first line to its return *)

\* the three branches set data, costBefore and costAfter
ExpenseData(ev) == IF ev.after.exists THEN ev.after ELSE ev.before

CostBefore(ev) == IF ev.before.exists THEN ev.before.cost ELSE 0

CostAfter(ev) == IF ev.after.exists THEN ev.after.cost ELSE 0

\* totalExpenses of the merge-set that ends the handler
GroupTotalAfter_DropBefore(groupData, costBefore, costAfter) ==
    JsAdd(groupData.totalExpenses, costAfter)

GroupTotalAfter_DropAfter(groupData, costBefore, costAfter) ==
    JsSub(groupData.totalExpenses, costBefore)

GroupTotalAfter(groupData, costBefore, costAfter) ==
    Delta(groupData.totalExpenses, costBefore, costAfter)

\* the onCreate trigger of groups/{g}/members/{u}, raised when the merge-set
\* of the member total creates the document
MemberCreated(id, g, u, before, after) ==
    IF before.exists THEN {}
    ELSE {[kind |-> "memberCreate", g |-> g, u |-> u, e |-> id,
           before |-> before, after |-> after]}

\* the tail of the handler: member total, then group total
ExpenseTail(ev, us, ues, raised) ==
    LET g == ev.g
        uid == ExpenseData(ev).userId
        groupData == groups[g]
    IN  /\ users' = us
        /\ userExpenses' = ues
        /\ members' = setGroupMemberExpenses(members, g, uid,
                                             CostBefore(ev), CostAfter(ev))
        /\ groups' = [groups EXCEPT ![g] =
               [groupData EXCEPT
                   !.exists = TRUE,
                   !.totalExpenses = GroupTotalAfter(groupData,
                                           CostBefore(ev), CostAfter(ev))]]
        /\ events' = (events \ {ev}) \cup raised
               \cup MemberCreated(ev.e, g, uid, members[g, uid],
                                  setGroupMemberExpenses(members, g, uid,
                                      CostBefore(ev), CostAfter(ev))[g, uid])
        /\ lastCall' = Outcome("onGroupExpensesWrite", g, uid, ev.e, "ok")

\* a handler that returns null or throws before the tail
ExpenseStop(ev, us, result) ==
    /\ users' = us
    /\ events' = events \ {ev}
    /\ lastCall' = Outcome("onGroupExpensesWrite", ev.g,
                           ExpenseData(ev).userId, ev.e, result)
    /\ UNCHANGED <<payments, groups, members, userExpenses>>

OnExpenseCreated(ev) ==
    LET uid == ev.after.userId
        us == createUserDocIfNotExists(users, uid)
        userExpense == UserExpenseOf(ev.g, CostAfter(ev))
    IN  /\ ~ev.before.exists
        /\ IF ~groups[ev.g].exists
           THEN ExpenseStop(ev, users, "null")
           ELSE IF userExpenses[uid, ev.e].exists
           THEN \* userExpenseRef.create rejects: the document exists
                ExpenseStop(ev, us, "error")
           ELSE ExpenseTail(ev, us,
                    [userExpenses EXCEPT ![uid, ev.e] = userExpense],
                    UserExpenseTrigger(uid, ev.e, NoUserExpense, userExpense))

OnExpenseDeleted(ev) ==
    LET uid == ev.before.userId
    IN  /\ ev.before.exists /\ ~ev.after.exists
        /\ IF ~groups[ev.g].exists
           THEN ExpenseStop(ev, users, "null")
           ELSE ExpenseTail(ev, users,
                    [userExpenses EXCEPT ![uid, ev.e] = NoUserExpense],
                    UserExpenseTrigger(uid, ev.e, userExpenses[uid, ev.e],
                                       NoUserExpense))

OnExpenseChanged(ev) ==
    LET uid == ev.after.userId
        us == createUserDocIfNotExists(users, uid)
        userExpense == UserExpenseOf(ev.g, ev.after.cost)
    IN  /\ ev.before.exists /\ ev.after.exists
        /\ IF ~groups[ev.g].exists
           THEN ExpenseStop(ev, users, "null")
           ELSE ExpenseTail(ev, us,
                    [userExpenses EXCEPT ![uid, ev.e] = userExpense],
                    UserExpenseTrigger(uid, ev.e, userExpenses[uid, ev.e],
                                       userExpense))

onGroupExpensesWrite ==
    \E ev \in events :
        /\ ev.kind = "groupExpense"
        /\ \/ OnExpenseCreated(ev)
           \/ OnExpenseDeleted(ev)
           \/ OnExpenseChanged(ev)
        /\ UNCHANGED <<payments, expenses, userGroups,
                       userPayments, tasks, writes, now, nCalls, nextId,
                       stale>>

----------------------------------------------------------------------------
(* onUserExpensesWrite and updateUserTotalExpenses *)

\* the achievementProgress the handlers fall back to when the field is absent
OldProgress(userData, field) ==
    IF userData[field] = Undefined THEN 0 ELSE userData[field]

\* set(data, {merge: true}): the fields of data replace those of the
\* document, which is created when absent; the other fields stay
SetMerge(doc, data) ==
    [f \in DOMAIN doc |->
        IF f = "exists" THEN TRUE
        ELSE IF f \in DOMAIN data THEN data[f] ELSE doc[f]]

ExpensesCountAfter_Recount(old, isNew) == IF isNew THEN old + 1 ELSE old - 1

ExpensesCountAfter(old, isNew) == IF isNew THEN old + 1 ELSE old

\* the object updateUserTotalExpenses sets, from the userData it has read
updateUserTotalExpenses(userData, costBefore, costAfter, isNew) ==
    [totalExpenses |-> Delta(userData.totalExpenses, costBefore, costAfter),
     expensesCount |->
         ExpensesCountAfter(OldProgress(userData, "expensesCount"), isNew),
     paymentsCount |-> OldProgress(userData, "paymentsCount"),
     maxNegativeBalance |-> OldProgress(userData, "maxNegativeBalance")]

\* the object updateUserTotalPayments sets
updateUserTotalPayments(userData, paymentBefore, paymentAfter, isNew) ==
    [totalPayments |-> Delta(userData.totalPayments, paymentBefore, paymentAfter),
     expensesCount |-> OldProgress(userData, "expensesCount"),
     paymentsCount |-> IF isNew
                       THEN OldProgress(userData, "paymentsCount") + 1
                       ELSE OldProgress(userData, "paymentsCount"),
     maxNegativeBalance |-> OldProgress(userData, "maxNegativeBalance")]

onUserExpensesWrite ==
    \E ev \in events :
        /\ ev.kind = "userExpense"
        /\ users' = [users EXCEPT ![ev.u] =
               SetMerge(users[ev.u],
                        updateUserTotalExpenses(users[ev.u], CostBefore(ev),
                                                CostAfter(ev), ~ev.before.exists))]
        /\ events' = events \ {ev}
        /\ lastCall' = Outcome("onUserExpensesWrite", "undefined", ev.u, ev.e, "ok")
        /\ UNCHANGED <<payments, groups, members, expenses, userExpenses, userGroups,
                       userPayments, tasks, writes, now, nCalls, nextId, stale>>

----------------------------------------------------------------------------
(* Writes of expense records by the clients of the store *)

MaxWrites == 3

ClientExpense(u, c) ==
    [exists |-> TRUE, cost |-> c, userId |-> u, date |-> 0,
     recurring |-> FALSE, alreadyRecurred |-> FALSE, recurringInterval |-> 0,
     name |-> "food", source |-> 0]

\* a create, an update (of cost, of userId or of both) or a delete of
\* groups/{g}/expenses/{e}, made once the handlers of the previous write
\* have run
WriteExpense(g, e, after) ==
    /\ events = {}
    /\ nCalls < MaxWrites
    /\ groups[g].exists
    /\ expenses[g, e] # after
    /\ expenses' = [expenses EXCEPT ![g, e] = after]
    /\ events' = GroupExpenseTrigger(g, e, expenses[g, e], after)
    /\ nCalls' = nCalls + 1
    /\ lastCall' = Outcome("write", g, after.userId, e, "ok")
    /\ UNCHANGED <<payments, groups, members, users, userExpenses, userGroups,
                       userPayments, tasks,
                   writes, now, stale>>

\* the id of a new expense document is one the store generates
\* (collection.add, or doc() as in checkRecurringForGroup): never seen before
CreateExpense ==
    \E g \in GroupIds, u \in UserIds, c \in Costs :
        /\ nextId < MaxExpenses
        /\ WriteExpense(g, nextId + 1, ClientExpense(u, c))
        /\ nextId' = nextId + 1

UpdateExpense ==
    \E g \in GroupIds, e \in ExpenseIds, u \in UserIds, c \in Costs :
        /\ expenses[g, e].exists
        /\ WriteExpense(g, e, ClientExpense(u, c))
        /\ UNCHANGED nextId

DeleteExpense ==
    \E g \in GroupIds, e \in ExpenseIds :
        /\ expenses[g, e].exists
        /\ WriteExpense(g, e, NoExpense)
        /\ UNCHANGED nextId

----------------------------------------------------------------------------
(* Specification of the expense aggregates: two groups created by u1 and   *)
(* joined by u2, every handler of those calls run, no expense yet          *)

InitMembers ==
    [p \in GroupIds \X UserIds |->
        IF p[2] = "u1" THEN NewMember("admin") ELSE NewMember("member")]

NumMembersOf(ms, g) == Cardinality({u \in UserIds : ms[g, u].exists})

NumGroupsOf(ms, u) == Cardinality({g \in GroupIds : ms[g, u].exists})

UserGroupOf(grp, mem) ==
    [exists |-> TRUE, personalExpenses |-> mem.totalExpenses,
     personalPayments |-> mem.totalPayments,
     totalExpenses |-> grp.totalExpenses, numMembers |-> grp.numMembers]

Idle == Outcome("none", "undefined", "undefined", 0, "none")

InitExpenses ==
    /\ payments = NoPayments
    /\ members = InitMembers
    /\ groups = [g \in GroupIds |->
                    [NewGroup EXCEPT !.numMembers = NumMembersOf(InitMembers, g)]]
    /\ expenses = [p \in GroupIds \X ExpenseIds |-> NoExpense]
    /\ users = [u \in UserIds |->
                    [NewUser EXCEPT !.numGroups = NumGroupsOf(InitMembers, u)]]
    /\ userExpenses = [p \in UserIds \X ExpenseIds |-> NoUserExpense]
    /\ userGroups = [p \in UserIds \X GroupIds |->
                    IF InitMembers[p[2], p[1]].exists
                    THEN UserGroupOf(groups[p[2]], InitMembers[p[2], p[1]])
                    ELSE NoUserGroup]
    /\ userPayments = [p \in UserIds \X ExpenseIds |-> NoUserPayment]
    /\ events = {}
    /\ tasks = {}
    /\ writes = {}
    /\ now = 0
    /\ lastCall = Idle
    /\ nCalls = 0
    /\ nextId = 0
    /\ stale = FALSE

NextExpenses ==
    \/ CreateExpense
    \/ UpdateExpense
    \/ DeleteExpense
    \/ onGroupExpensesWrite
    \/ onUserExpensesWrite

SpecExpenses == InitExpenses /\ [][NextExpenses]_vars

----------------------------------------------------------------------------
(* Claims about the expense aggregates (SpecExpenses) *)

NoPending(kind) == \A ev \in events : ev.kind # kind

\* C1: with the onGroupExpensesWrite handler of every expense write run
\* before the next write, Group.totalExpenses equals the sum of the costs of
\* the expense records now in the group.
C1_GroupTotalIsSum ==
    NoPending("groupExpense") =>
        \A g \in GroupIds :
            groups[g].exists => groups[g].totalExpenses = SumGroupExpenses(g)

\* a state after creates and a delete in which a group's total is the
\* positive sum of what is left
C1_Witness ==
    /\ events = {}
    /\ nCalls = MaxWrites
    /\ \E g \in GroupIds :
        /\ \E e \in ExpenseIds :
               e <= nextId /\ \A h \in GroupIds : ~expenses[h, e].exists
        /\ \E e \in ExpenseIds : expenses[g, e].exists /\ expenses[g, e].cost = MaxCost
        /\ SumGroupExpenses(g) >= MaxCost
        /\ groups[g].totalExpenses = SumGroupExpenses(g)

\* C2: with every handler run before the next write, each Member record's
\* totalExpenses equals the sum of the costs of the group's expenses whose
\* userId is that member.
C2_MemberTotalIsSum ==
    NoPending("groupExpense") =>
        \A g \in GroupIds, u \in UserIds :
            members[g, u].exists =>
                members[g, u].totalExpenses = SumMemberExpenses(g, u)

\* C3: once onGroupExpensesWrite and the onUserExpensesWrite it triggers have
\* run for every write, each User's totalExpenses equals the sum of the costs
\* of all group expenses, across the groups, whose userId is that user.
C3_UserTotalIsSum ==
    events = {} =>
        \A u \in UserIds :
            users[u].exists => users[u].totalExpenses = SumUserExpenses(u)

----------------------------------------------------------------------------
(* The callable endpoints.  A call in flight is a task: its arguments, the *)
(* statement it will run next (pc) and what it has read so far.  Every     *)
(* await of the source is the end of one step.                             *)

MaxCalls == 2
Roles == {"admin", "member"}

Task(id, op, g, u, arg, pc) ==
    [id |-> id, op |-> op, g |-> g, u |-> u, arg |-> arg, pc |-> pc,
     read |-> 0, removed |-> FALSE, admin |-> FALSE]

\* lastCall after a step of task t that leaves it at pc with the result
Step(t, pc, result) ==
    [id |-> t.id, op |-> t.op, g |-> t.g, u |-> t.u, arg |-> t.arg, e |-> 0,
     pc |-> pc, result |-> result, removed |-> t.removed, empty |-> FALSE,
     admin |-> t.admin]

\* the { exists } test of the group snapshot the endpoints read first
GroupMissing_Never(groupDoc) == FALSE

GroupMissing(groupDoc) == ~groupDoc.exists

\* the onCreate / onDelete triggers of groups/{g}/members/{u}
MemberTrigger(id, g, u, before, after) ==
    IF before.exists = after.exists THEN {}
    ELSE {[kind |-> IF after.exists THEN "memberCreate" ELSE "memberDelete",
           g |-> g, u |-> u, e |-> id, before |-> before, after |-> after]}

\* a task ends: it returned or threw
Return(t, result) ==
    /\ tasks' = tasks \ {t}
    /\ lastCall' = Step(t, "return", result)

Goto(t, pc) ==
    /\ tasks' = (tasks \ {t}) \cup {[t EXCEPT !.pc = pc]}
    /\ lastCall' = Step(t, pc, "pending")

\* createGroup: add the group document under a generated id, then call
\* addUserToGroup(id, uid, "admin")
createGroup ==
    \E g \in GroupIds, u \in UserIds :
        /\ nCalls < MaxCalls
        /\ ~groups[g].exists
        /\ groups' = [groups EXCEPT ![g] = NewGroup]
        /\ nCalls' = nCalls + 1
        /\ LET t == Task(nCalls + 1, "createGroup", g, u, "admin", "getGroup")
           IN  /\ tasks' = tasks \cup {t}
               /\ lastCall' = Step(t, "getGroup", "pending")
        /\ UNCHANGED <<payments, members, expenses, users, userExpenses, userGroups,
                       userPayments, events, writes, now, nextId, stale>>

\* joinGroup: addUserToGroup(data.groupId, uid, data.role)
joinGroup ==
    \E g \in GroupIds, u \in UserIds, role \in Roles :
        /\ nCalls < MaxCalls
        /\ nCalls' = nCalls + 1
        /\ LET t == Task(nCalls + 1, "joinGroup", g, u, role, "getGroup")
           IN  /\ tasks' = tasks \cup {t}
               /\ lastCall' = Step(t, "getGroup", "pending")
        /\ UNCHANGED <<payments, groups, members, expenses, users, userExpenses,
                       userGroups,
                       userPayments, events, writes, now, nextId, stale>>

\* addUserToGroup, up to the test of groupDoc.exists
addUserToGroupGet ==
    \E t \in tasks :
        /\ t.op \in {"createGroup", "joinGroup"}
        /\ t.pc = "getGroup"
        /\ IF GroupMissing(groups[t.g])
           THEN Return(t, "failed-precondition")
           ELSE Goto(t, "setMember")
        /\ UNCHANGED <<payments, groups, members, expenses, users, userExpenses,
                       userGroups,
                       userPayments, events, writes, now, nCalls, nextId, stale>>

\* addUserToGroup: groupMemberRef.set(groupMemberData)
addUserToGroupSet ==
    \E t \in tasks :
        /\ t.op \in {"createGroup", "joinGroup"}
        /\ t.pc = "setMember"
        /\ members' = [members EXCEPT ![t.g, t.u] = NewMember(t.arg)]
        /\ events' = events \cup
               MemberTrigger(t.id, t.g, t.u, members[t.g, t.u], NewMember(t.arg))
        /\ Return(t, "ok")
        /\ UNCHANGED <<payments, groups, expenses, users, userExpenses, userGroups,
                       userPayments, writes, now, nCalls, nextId, stale>>

\* leaveGroup and kickMemberFromGroup: the call arrives
leaveGroup ==
    \E g \in GroupIds, u \in UserIds :
        /\ nCalls < MaxCalls
        /\ nCalls' = nCalls + 1
        /\ LET t == Task(nCalls + 1, "leaveGroup", g, u, "undefined", "getGroup")
           IN  /\ tasks' = tasks \cup {t}
               /\ lastCall' = Step(t, "getGroup", "pending")
        /\ UNCHANGED <<payments, groups, members, expenses, users, userExpenses,
                       userGroups,
                       userPayments, events, writes, now, nextId, stale>>

kickMemberFromGroup ==
    \E g \in GroupIds, u \in UserIds, memberId \in UserIds :
        /\ nCalls < MaxCalls
        /\ nCalls' = nCalls + 1
        /\ LET t == Task(nCalls + 1, "kickMemberFromGroup", g, u, memberId,
                         "getGroup")
           IN  /\ tasks' = tasks \cup {t}
               /\ lastCall' = Step(t, "getGroup", "pending")
        /\ UNCHANGED <<payments, groups, members, expenses, users, userExpenses,
                       userGroups,
                       userPayments, events, writes, now, nextId, stale>>

\* leaveGroup: the test of groupDoc.exists
leaveGroupGet ==
    \E t \in tasks :
        /\ t.op = "leaveGroup"
        /\ t.pc = "getGroup"
        /\ IF GroupMissing(groups[t.g])
           THEN Return(t, "failed-precondition")
           ELSE Goto(t, "deleteMember")
        /\ UNCHANGED <<payments, groups, members, expenses, users, userExpenses,
                       userGroups,
                       userPayments, events, writes, now, nCalls, nextId, stale>>

\* leaveGroup: groupMemberRef.delete()
leaveGroupDelete ==
    \E t \in tasks :
        /\ t.op = "leaveGroup"
        /\ t.pc = "deleteMember"
        /\ members' = [members EXCEPT ![t.g, t.u] = NoMember]
        /\ events' = events \cup
               MemberTrigger(t.id, t.g, t.u, members[t.g, t.u], NoMember)
        /\ LET seen == [t EXCEPT !.removed = members[t.g, t.u].exists]
           IN  /\ tasks' = (tasks \ {t}) \cup {[seen EXCEPT !.pc = "getMembers"]}
               /\ lastCall' = Step(seen, "getMembers", "pending")
        /\ UNCHANGED <<payments, groups, expenses, users, userExpenses, userGroups,
                       userPayments, writes, now, nCalls, nextId, stale>>

\* the documents of the collection leaveGroup names groupExpensesRef
FreezeCollection(g) == {u \in UserIds : members[g, u].exists}

\* leaveGroup: groupMembersCol.empty
leaveGroupMembers ==
    \E t \in tasks :
        /\ t.op = "leaveGroup"
        /\ t.pc = "getMembers"
        /\ IF \E u \in UserIds : members[t.g, u].exists
           THEN /\ tasks' = tasks \ {t}
                /\ lastCall' = Step(t, "return", "ok")
           ELSE /\ tasks' = (tasks \ {t}) \cup {[t EXCEPT !.pc = "freeze"]}
                /\ lastCall' = [Step(t, "freeze", "pending") EXCEPT !.empty = TRUE]
        /\ UNCHANGED <<payments, groups, members, expenses, users, userExpenses,
                       userGroups,
                       userPayments, events, writes, now, nCalls, nextId, stale>>

\* leaveGroup: groupExpensesCol.forEach(doc => doc.ref.set(...)), return rv;
\* the sets are not awaited
leaveGroupFreeze ==
    \E t \in tasks :
        /\ t.op = "leaveGroup"
        /\ t.pc = "freeze"
        /\ writes' = writes \cup
               {[id |-> t.id, g |-> t.g, u |-> u] : u \in FreezeCollection(t.g)}
        /\ tasks' = tasks \ {t}
        /\ lastCall' = [Step(t, "return", "ok") EXCEPT !.empty = TRUE]
        /\ UNCHANGED <<payments, groups, members, expenses, users, userExpenses,
                       userGroups,
                       userPayments, events, now, nCalls, nextId, stale>>

\* one of the sets of leaveGroup reaches the store: a merge of
\* {alreadyRecurred: true} into the document it was issued for
applyFreeze ==
    \E w \in writes :
        /\ members' = [members EXCEPT ![w.g, w.u] =
               [members[w.g, w.u] EXCEPT !.exists = TRUE,
                                         !.alreadyRecurred = TRUE]]
        /\ events' = events \cup
               MemberTrigger(w.id, w.g, w.u, members[w.g, w.u],
                             [members[w.g, w.u] EXCEPT !.exists = TRUE])
        /\ writes' = writes \ {w}
        /\ lastCall' = [Outcome("leaveGroup", w.g, w.u, 0, "set")
                            EXCEPT !.id = w.id, !.pc = "freeze"]
        /\ UNCHANGED <<payments, groups, expenses, users, userExpenses, userGroups,
                       userPayments, tasks, now, nCalls, nextId, stale>>

\* kickMemberFromGroup: the test of groupDoc.exists
kickGet ==
    \E t \in tasks :
        /\ t.op = "kickMemberFromGroup"
        /\ t.pc = "getGroup"
        /\ IF GroupMissing(groups[t.g])
           THEN Return(t, "failed-precondition")
           ELSE Goto(t, "getIssuer")
        /\ UNCHANGED <<payments, groups, members, expenses, users, userExpenses,
                       userGroups,
                       userPayments, events, writes, now, nCalls, nextId, stale>>

\* issuerMemberDoc?.data()?.role !== "admin"
NotAdmin_OnlyMembers(issuerMemberDoc) == issuerMemberDoc.role = "member"

NotAdmin(issuerMemberDoc) ==
    ~issuerMemberDoc.exists \/ issuerMemberDoc.role # "admin"

\* kickMemberFromGroup: the test of the issuer's role; task.admin records
\* what the store held for the issuer when it was read
kickCheck ==
    \E t \in tasks :
        /\ t.op = "kickMemberFromGroup"
        /\ t.pc = "getIssuer"
        /\ LET issuerMemberDoc == members[t.g, t.u]
               seen == [t EXCEPT !.admin = issuerMemberDoc.exists
                                        /\ issuerMemberDoc.role = "admin"]
           IN  IF NotAdmin(issuerMemberDoc)
               THEN /\ tasks' = tasks \ {t}
                    /\ lastCall' = Step(seen, "return", "failed-precondition")
               ELSE /\ tasks' = (tasks \ {t}) \cup {[seen EXCEPT !.pc = "delete"]}
                    /\ lastCall' = Step(seen, "delete", "pending")
        /\ UNCHANGED <<payments, groups, members, expenses, users, userExpenses,
                       userGroups,
                       userPayments, events, writes, now, nCalls, nextId, stale>>

\* kickMemberFromGroup: groupMemberRef.delete()
kickDelete ==
    \E t \in tasks :
        /\ t.op = "kickMemberFromGroup"
        /\ t.pc = "delete"
        /\ members' = [members EXCEPT ![t.g, t.arg] = NoMember]
        /\ events' = events \cup
               MemberTrigger(t.id, t.g, t.arg, members[t.g, t.arg], NoMember)
        /\ tasks' = tasks \ {t}
        /\ lastCall' = [Step(t, "return", "ok")
                            EXCEPT !.removed = members[t.g, t.arg].exists]
        /\ UNCHANGED <<payments, groups, expenses, users, userExpenses, userGroups,
                       userPayments, writes, now, nCalls, nextId, stale>>

----------------------------------------------------------------------------
(* onGroupMemberCreate and onGroupMemberDelete: the group is read, and     *)
(* after the await numMembers is written from the value read               *)

\* groupRef.get() and the test of groupDoc.exists
MemberHandlerGet(kind, op) ==
    \E ev \in events :
        /\ ev.kind = kind
        /\ events' = events \ {ev}
        /\ LET t == [Task(ev.e, op, ev.g, ev.u, "undefined", "setGroup")
                        EXCEPT !.read = groups[ev.g].numMembers]
           IN  IF GroupMissing(groups[ev.g])
               THEN /\ tasks' = tasks
                    /\ lastCall' = Step(t, "return", "null")
               ELSE /\ tasks' = tasks \cup {t}
                    /\ lastCall' = Step(t, "setGroup", "pending")
        /\ UNCHANGED <<payments, groups, members, expenses, users, userExpenses,
                       userGroups,
                       userPayments, writes, now, nCalls, nextId, stale>>

NumMembersAfterCreate(numMembers) == JsAdd(numMembers, 1)

NumMembersAfterDelete_Keep(numMembers) == numMembers

NumMembersAfterDelete(numMembers) == JsSub(numMembers, 1)

\* groupRef.set({latestUpdate, numMembers}, {merge: true})
MemberHandlerSet(op) ==
    \E t \in tasks :
        /\ t.op = op
        /\ t.pc = "setGroup"
        /\ groups' = [groups EXCEPT ![t.g] =
               [groups[t.g] EXCEPT
                   !.exists = TRUE,
                   !.numMembers = IF op = "onGroupMemberCreate"
                                  THEN NumMembersAfterCreate(t.read)
                                  ELSE NumMembersAfterDelete(t.read)]]
        /\ stale' = (stale \/ groups[t.g].numMembers # t.read)
        /\ Return(t, "ok")
        /\ UNCHANGED <<payments, members, expenses, users, userExpenses, userGroups,
                       userPayments, events, writes, now, nCalls, nextId>>

onGroupMemberCreateGet == MemberHandlerGet("memberCreate", "onGroupMemberCreate")

onGroupMemberCreateSet == MemberHandlerSet("onGroupMemberCreate")

onGroupMemberDeleteGet == MemberHandlerGet("memberDelete", "onGroupMemberDelete")

onGroupMemberDeleteSet == MemberHandlerSet("onGroupMemberDelete")

----------------------------------------------------------------------------
(* Specification of the membership endpoints: group g1 was created by u1,  *)
(* who added one recurring expense; g2 does not exist yet                  *)

FirstExpense ==
    [exists |-> TRUE, cost |-> 1, userId |-> "u1", date |-> 0,
     recurring |-> TRUE, alreadyRecurred |-> FALSE, recurringInterval |-> 1,
     name |-> "food", source |-> 0]

InitMembership ==
    /\ payments = NoPayments
    /\ groups = [g \in GroupIds |->
                    IF g = "g1"
                    THEN [NewGroup EXCEPT !.numMembers = 1, !.totalExpenses = 1]
                    ELSE NoGroup]
    /\ members = [p \in GroupIds \X UserIds |->
                    IF p = <<"g1", "u1">>
                    THEN [NewMember("admin") EXCEPT !.totalExpenses = 1]
                    ELSE NoMember]
    /\ expenses = [p \in GroupIds \X ExpenseIds |->
                    IF p = <<"g1", 1>> THEN FirstExpense ELSE NoExpense]
    /\ users = [u \in UserIds |->
                    IF u = "u1"
                    THEN [NewUser EXCEPT !.numGroups = 1, !.totalExpenses = 1,
                                         !.expensesCount = 1]
                    ELSE NewUser]
    /\ userExpenses = [p \in UserIds \X ExpenseIds |->
                    IF p = <<"u1", 1>> THEN UserExpenseOf("g1", 1)
                    ELSE NoUserExpense]
    /\ userGroups = [p \in UserIds \X GroupIds |->
                    IF p = <<"u1", "g1">>
                    THEN UserGroupOf(groups["g1"], members["g1", "u1"])
                    ELSE NoUserGroup]
    /\ userPayments = [p \in UserIds \X ExpenseIds |-> NoUserPayment]
    /\ events = {}
    /\ tasks = {}
    /\ writes = {}
    /\ now = 0
    /\ lastCall = Idle
    /\ nCalls = 0
    /\ nextId = 1
    /\ stale = FALSE

NextMembership ==
    \/ createGroup
    \/ joinGroup
    \/ leaveGroup
    \/ kickMemberFromGroup
    \/ addUserToGroupGet
    \/ addUserToGroupSet
    \/ leaveGroupGet
    \/ leaveGroupDelete
    \/ leaveGroupMembers
    \/ leaveGroupFreeze
    \/ applyFreeze
    \/ kickGet
    \/ kickCheck
    \/ kickDelete
    \/ onGroupMemberCreateGet
    \/ onGroupMemberCreateSet
    \/ onGroupMemberDeleteGet
    \/ onGroupMemberDeleteSet

SpecMembership == InitMembership /\ [][NextMembership]_vars

----------------------------------------------------------------------------
(* Claims about the membership endpoints (SpecMembership) *)

Quiescent == events = {} /\ tasks = {} /\ writes = {}

NumMembersIsCount ==
    \A g \in GroupIds :
        groups[g].exists => groups[g].numMembers = NumMembersOf(members, g)

\* C4 as stated: in every quiescent state reachable by any interleaving of
\* the four calls and the handlers they trigger, Group.numMembers equals the
\* number of Member records under the group.
C4_NumMembersIsCount == Quiescent => NumMembersIsCount

\* C4 as amended: the same, in the quiescent states reached without any
\* onGroupMemberCreate / onGroupMemberDelete invocation having written
\* numMembers from a value that another invocation had replaced since it
\* was read.
C4_NumMembersIsCountUnlessStale == (Quiescent /\ ~stale) => NumMembersIsCount

\* u2 joined g1 and u1 left it, both handlers have run, and the count is 1
C4_Witness ==
    /\ Quiescent
    /\ ~stale
    /\ members["g1", "u2"].exists
    /\ ~members["g1", "u1"].exists
    /\ groups["g1"].numMembers = 1

\* C8: when leave-group removes the last Member record of a group, every
\* expense record of the group has alreadyRecurred = true once the call
\* has completed.
C8_LastLeaveFreezes ==
    ( /\ lastCall.op = "leaveGroup"
      /\ lastCall.pc = "return"
      /\ lastCall.result = "ok"
      /\ lastCall.removed
      /\ lastCall.empty
      /\ writes = {} )
    => \A e \in ExpenseIds :
           expenses[lastCall.g, e].exists => expenses[lastCall.g, e].alreadyRecurred

IsAdminMember(doc) == doc.exists /\ doc.role = "admin"

\* C9: a step of kick-member changes the Member records only if the caller
\* held a Member record with role "admin" when the call read it; when the
\* caller's record read is absent or has another role, the call ends with
\* failed-precondition and no Member record is deleted.
C9_KickOnlyByAdmin ==
    [][\A t \in tasks :
          (t.op = "kickMemberFromGroup" /\ t \notin tasks') =>
              /\ members' # members => (t.pc = "delete" /\ t.admin)
              /\ (t.pc = "getIssuer" /\ ~IsAdminMember(members[t.g, t.u])) =>
                     /\ members' = members
                     /\ lastCall'.id = t.id
                     /\ lastCall'.result = "failed-precondition"
                     /\ \A r \in tasks' : r.id # t.id]_vars

\* an admin has kicked another user, whose Member record existed
C9_Witness ==
    /\ lastCall.op = "kickMemberFromGroup"
    /\ lastCall.result = "ok"
    /\ lastCall.admin
    /\ lastCall.removed
    /\ lastCall.arg # lastCall.u
    /\ ~members[lastCall.g, lastCall.arg].exists

\* C10: join-group, leave-group and kick-member on a groupId with no Group
\* record end with failed-precondition and write nothing: the documents, the
\* triggers raised and the writes in flight are as before.
C10_MissingGroupFails ==
    [][\A t \in tasks :
          ( /\ t.op \in {"joinGroup", "leaveGroup", "kickMemberFromGroup"}
            /\ t.pc = "getGroup"
            /\ t \notin tasks'
            /\ ~groups[t.g].exists ) =>
              /\ lastCall'.id = t.id
              /\ lastCall'.result = "failed-precondition"
              /\ \A r \in tasks' : r.id # t.id
              /\ UNCHANGED <<payments, groups, members, expenses, users, userExpenses,
                             userGroups,
                       userPayments, events, writes>>]_vars

\* a call on the group that does not exist has failed
C10_Witness ==
    /\ lastCall.op \in {"joinGroup", "leaveGroup", "kickMemberFromGroup"}
    /\ lastCall.pc = "return"
    /\ lastCall.result = "failed-precondition"
    /\ ~groups[lastCall.g].exists
    /\ nCalls = MaxCalls

----------------------------------------------------------------------------
(* The handlers that write users/{u}: onUserExpensesWrite,                 *)
(* onUserPaymentWrite and checkBalanceForUser.  Each reads the user        *)
(* document and, after an await, sets fields computed from what it read.   *)

MaxInvocations == 2

\* the only user the triggers and scans of this specification are for
Owner == "u1"

UserTask(id, op, pc, userData, before, after, isNew) ==
    [id |-> id, op |-> op, u |-> Owner, pc |-> pc, userData |-> userData,
     before |-> before, after |-> after, isNew |-> isNew, queue |-> <<>>]

\* the mirror writes of onGroupExpensesWrite (create, set, delete of
\* users/{u}/expenses/{e}) raise the trigger of onUserExpensesWrite
WriteUserExpense(e, after) ==
    /\ nCalls < MaxInvocations
    /\ userExpenses[Owner, e] # after
    /\ userExpenses' = [userExpenses EXCEPT ![Owner, e] = after]
    /\ events' = events \cup
           {[kind |-> "userExpense", g |-> "undefined", u |-> Owner, e |-> e,
             before |-> userExpenses[Owner, e], after |-> after,
             id |-> nCalls + 1]}
    /\ nCalls' = nCalls + 1
    /\ UNCHANGED <<payments, groups, members, expenses, users, userGroups, userPayments,
                   tasks, writes, now, lastCall, stale>>

MirrorExpense ==
    \/ \E c \in Costs :
        /\ nextId < MaxExpenses
        /\ nextId' = nextId + 1
        /\ WriteUserExpense(nextId + 1, UserExpenseOf("g1", c))
    \/ \E e \in ExpenseIds, c \in Costs :
        /\ userExpenses[Owner, e].exists
        /\ UNCHANGED nextId
        /\ WriteUserExpense(e, UserExpenseOf("g1", c))
    \/ \E e \in ExpenseIds :
        /\ userExpenses[Owner, e].exists
        /\ UNCHANGED nextId
        /\ WriteUserExpense(e, NoUserExpense)

\* the mirror writes of onGroupPaymentsWrite raise the trigger of
\* onUserPaymentWrite
WriteUserPayment(e, after) ==
    /\ nCalls < MaxInvocations
    /\ userPayments[Owner, e] # after
    /\ userPayments' = [userPayments EXCEPT ![Owner, e] = after]
    /\ events' = events \cup
           {[kind |-> "userPayment", g |-> "undefined", u |-> Owner, e |-> e,
             before |-> userPayments[Owner, e], after |-> after,
             id |-> nCalls + 1]}
    /\ nCalls' = nCalls + 1
    /\ UNCHANGED <<payments, groups, members, expenses, users, userGroups, userExpenses,
                   tasks, writes, now, lastCall, stale>>

UserPaymentOf(payment) == [exists |-> TRUE, payment |-> payment]

MirrorPayment ==
    \/ \E c \in Costs :
        /\ nextId < MaxExpenses
        /\ nextId' = nextId + 1
        /\ WriteUserPayment(nextId + 1, UserPaymentOf(c))
    \/ \E e \in ExpenseIds, c \in Costs :
        /\ userPayments[Owner, e].exists
        /\ UNCHANGED nextId
        /\ WriteUserPayment(e, UserPaymentOf(c))
    \/ \E e \in ExpenseIds :
        /\ userPayments[Owner, e].exists
        /\ UNCHANGED nextId
        /\ WriteUserPayment(e, NoUserPayment)

PaymentBefore(ev) == IF ev.before.exists THEN ev.before.payment ELSE 0

PaymentAfter(ev) == IF ev.after.exists THEN ev.after.payment ELSE 0

\* onUserExpensesWrite / onUserPaymentWrite up to userRef.get()
UserHandlerGet(kind, op) ==
    \E ev \in events :
        /\ ev.kind = kind
        /\ events' = events \ {ev}
        /\ tasks' = tasks \cup
               {UserTask(ev.id, op, "set", users[ev.u],
                         IF kind = "userExpense" THEN CostBefore(ev)
                         ELSE PaymentBefore(ev),
                         IF kind = "userExpense" THEN CostAfter(ev)
                         ELSE PaymentAfter(ev),
                         ~ev.before.exists)}
        /\ UNCHANGED <<payments, groups, members, expenses, users, userExpenses,
                       userGroups, userPayments, writes, now, lastCall, nCalls,
                       nextId, stale>>

\* a task sets the object it computed on the user document
UserSet(t, data, rest) ==
    /\ users' = [users EXCEPT ![t.u] = SetMerge(users[t.u], data)]
    /\ tasks' = (tasks \ {t}) \cup rest
    /\ UNCHANGED <<payments, groups, members, expenses, userExpenses, userGroups,
                   userPayments, events, writes, now, lastCall, nCalls, nextId,
                   stale>>

onUserExpensesWriteGet == UserHandlerGet("userExpense", "onUserExpensesWrite")

onUserExpensesWriteSet ==
    \E t \in tasks :
        /\ t.op = "onUserExpensesWrite"
        /\ UserSet(t, updateUserTotalExpenses(t.userData, t.before, t.after,
                                              t.isNew), {})

onUserPaymentWriteGet == UserHandlerGet("userPayment", "onUserPaymentWrite")

onUserPaymentWriteSet ==
    \E t \in tasks :
        /\ t.op = "onUserPaymentWrite"
        /\ UserSet(t, updateUserTotalPayments(t.userData, t.before, t.after,
                                              t.isNew), {})

----------------------------------------------------------------------------
(* checkBalanceForUser *)

JsDiv(a, b) == IF IsNum(a) /\ IsNum(b) /\ b # 0 THEN a \div b ELSE NaN

JsLess(a, b) == IsNum(a) /\ IsNum(b) /\ a < b

\* the documents of users/{u}/groups in the order forEach visits them
GroupOrder == <<"g1", "g2">>

UserGroupDocs(u) ==
    SelectSeq(GroupOrder, LAMBDA g : userGroups[u, g].exists)

personalBalance(groupData) ==
    JsSub(groupData.personalPayments,
          JsDiv(groupData.totalExpenses, groupData.numMembers))

\* forEach over the group documents from the i-th on: userBalance grows by
\* each personalBalance, and a set is issued each time it is below the
\* maxNegativeBalance of the userDoc snapshot
RECURSIVE BalanceSets(_, _, _, _)
BalanceSets(u, docs, userBalance, userData) ==
    IF docs = <<>> THEN <<>>
    ELSE LET balance == JsAdd(userBalance,
                              personalBalance(userGroups[u, Head(docs)]))
             rest == BalanceSets(u, Tail(docs), balance, userData)
         IN  IF JsLess(balance, OldProgress(userData, "maxNegativeBalance"))
             THEN <<[totalExpenses |-> userData.totalExpenses,
                     expensesCount |-> OldProgress(userData, "expensesCount"),
                     paymentsCount |-> OldProgress(userData, "paymentsCount"),
                     maxNegativeBalance |-> balance]>> \o rest
             ELSE rest

\* checkRecurringAndBalance: usersSnapshot holds the user document
checkBalanceForUserSnapshot ==
    /\ nCalls < MaxInvocations
    /\ users[Owner].exists
    /\ nCalls' = nCalls + 1
    /\ tasks' = tasks \cup
           {UserTask(nCalls + 1, "checkBalanceForUser", "getGroups",
                     users[Owner], 0, 0, FALSE)}
    /\ UNCHANGED <<payments, groups, members, expenses, users, userExpenses, userGroups,
                   userPayments, events, writes, now, lastCall, nextId, stale>>

\* groupsCollectionRef.get().then(forEach ...): every callback runs up to its
\* await, so the sets are issued in the order of the documents
checkBalanceForUserGroups ==
    \E t \in tasks :
        /\ t.op = "checkBalanceForUser"
        /\ t.pc = "getGroups"
        /\ LET sets == BalanceSets(t.u, UserGroupDocs(t.u), 0, t.userData)
           IN  tasks' = (tasks \ {t}) \cup
                   (IF sets = <<>> THEN {}
                    ELSE {[t EXCEPT !.pc = "set", !.queue = sets]})
        /\ UNCHANGED <<payments, groups, members, expenses, users, userExpenses,
                       userGroups, userPayments, events, writes, now, lastCall,
                       nCalls, nextId, stale>>

Without(q, i) == SubSeq(q, 1, i - 1) \o SubSeq(q, i + 1, Len(q))

\* nothing awaits a set before the next is issued: the sets in flight reach
\* the store in any order
checkBalanceForUserSet ==
    \E t \in tasks :
        /\ t.op = "checkBalanceForUser"
        /\ t.pc = "set"
        /\ \E i \in 1..Len(t.queue) :
               UserSet(t, t.queue[i],
                       IF Len(t.queue) = 1 THEN {}
                       ELSE {[t EXCEPT !.queue = Without(t.queue, i)]})

----------------------------------------------------------------------------
(* Specification of the user record: the user's UserGroup mirrors are any  *)
(* of the values below and stay fixed; expense and payment mirrors are     *)
(* written and the balance scan runs, in any interleaving                  *)

ShareTotals == {0, 2}
MemberCounts == {1, 2}
PersonalPayments == {0, 1}

\* a mirror that onGroupUpdate has filled, one that it has not, or none
UserGroupValues ==
    {NoUserGroup,
     [exists |-> TRUE, personalExpenses |-> 0, personalPayments |-> 0,
      totalExpenses |-> Undefined, numMembers |-> Undefined]}
    \cup {[exists |-> TRUE, personalExpenses |-> 0, personalPayments |-> p,
           totalExpenses |-> t, numMembers |-> n] :
              p \in PersonalPayments, t \in ShareTotals, n \in MemberCounts}

\* the second mirror: none, or one of a group without expenses in which the
\* user has paid
SecondGroupValues ==
    {NoUserGroup} \cup
    {v \in UserGroupValues :
        v.exists /\ v.personalPayments = 1 /\ v.totalExpenses = 0
                 /\ v.numMembers = 1}

InitUserRecord ==
    /\ payments = NoPayments
    /\ groups = [g \in GroupIds |-> NewGroup]
    /\ members = [p \in GroupIds \X UserIds |-> NoMember]
    /\ expenses = [p \in GroupIds \X ExpenseIds |-> NoExpense]
    /\ users = [u \in UserIds |-> NewUser]
    /\ userExpenses = [p \in UserIds \X ExpenseIds |-> NoUserExpense]
    /\ userPayments = [p \in UserIds \X ExpenseIds |-> NoUserPayment]
    /\ \E a \in UserGroupValues, b \in SecondGroupValues :
           userGroups = [p \in UserIds \X GroupIds |->
                            IF p[1] # Owner THEN NoUserGroup
                            ELSE IF p[2] = "g1" THEN a ELSE b]
    /\ events = {}
    /\ tasks = {}
    /\ writes = {}
    /\ now = 0
    /\ lastCall = Idle
    /\ nCalls = 0
    /\ nextId = 0
    /\ stale = FALSE

NextUserRecord ==
    \/ MirrorExpense
    \/ MirrorPayment
    \/ onUserExpensesWriteGet
    \/ onUserExpensesWriteSet
    \/ onUserPaymentWriteGet
    \/ onUserPaymentWriteSet
    \/ checkBalanceForUserSnapshot
    \/ checkBalanceForUserGroups
    \/ checkBalanceForUserSet

SpecUserRecord == InitUserRecord /\ [][NextUserRecord]_vars

\* the tasks that complete a step in this transition
Stepping == tasks \ tasks'

ReadCountsAreStored(t) ==
    /\ OldProgress(t.userData, "expensesCount") = users[t.u].expensesCount
    /\ OldProgress(t.userData, "paymentsCount") = users[t.u].paymentsCount

CountsNotLowered(u) ==
    /\ users'[u].expensesCount >= users[u].expensesCount
    /\ users'[u].paymentsCount >= users[u].paymentsCount

\* C5 as stated: under any interleaving of onUserExpensesWrite,
\* onUserPaymentWrite and checkBalanceForUser invocations for one user, no
\* write to the User record lowers expensesCount or paymentsCount below the
\* value stored immediately before the write.
C5_CountsNeverLowered == [][CountsNotLowered(Owner)]_vars

\* C5, amended: a write to the User record does not lower expensesCount or
\* paymentsCount below the stored value when the counts the writing
\* invocation read are still the stored ones at the time it writes.
C5_CountsNotLoweredByFreshWrite ==
    [][\A t \in Stepping : ReadCountsAreStored(t) => CountsNotLowered(t.u)]_vars

\* every mirror write was a first-time creation and each was counted, the
\* handlers having written one after the other
C5_Witness ==
    /\ tasks = {}
    /\ events = {}
    /\ nCalls = MaxInvocations
    /\ users[Owner].expensesCount + users[Owner].paymentsCount = MaxInvocations

----------------------------------------------------------------------------
(* Specification of the balance scan alone: checkBalanceForUser runs       *)
(* repeatedly over UserGroup mirrors that never change                     *)

NextBalanceScan ==
    \/ checkBalanceForUserSnapshot
    \/ checkBalanceForUserGroups
    \/ checkBalanceForUserSet

SpecBalanceScan == InitUserRecord /\ [][NextBalanceScan]_vars

\* C6: every write of the balance scan to maxNegativeBalance, successive
\* writes within one scan included, stores a value less than or equal to the
\* value stored immediately before that write.
C6_ScanNeverRaisesMaxNegativeBalance ==
    [][users'[Owner].maxNegativeBalance <= users[Owner].maxNegativeBalance]_vars

----------------------------------------------------------------------------
(* Dates.  A Date is its time value counted in hours (UTC); the calendar   *)
(* fields getMonth, getFullYear and setFullYear are those of the           *)
(* proleptic Gregorian calendar, months numbered from 0.                   *)

HoursPerDay == 24

DayOf(date) == date \div HoursPerDay

\* the day number (days since 1970-01-01) of day d of month m (0..11) of
\* year y; d may lie outside the month, as in new Date(y, m, d)
DaysFromCivil(y, m, d) ==
    LET yy  == IF m <= 1 THEN y - 1 ELSE y
        era == yy \div 400
        yoe == yy - era * 400
        mp  == IF m >= 2 THEN m - 2 ELSE m + 10
        doy == (153 * mp + 2) \div 5 + d - 1
        doe == yoe * 365 + yoe \div 4 - yoe \div 100 + doy
    IN  era * 146097 + doe - 719468

\* <<year, month (0..11), day of month>> of a day number
CivilFromDays(days) ==
    LET z   == days + 719468
        era == z \div 146097
        doe == z - era * 146097
        yoe == (doe - doe \div 1460 + doe \div 36524 - doe \div 146096) \div 365
        doy == doe - (365 * yoe + yoe \div 4 - yoe \div 100)
        mp  == (5 * doy + 2) \div 153
        d   == doy - (153 * mp + 2) \div 5 + 1
        m   == IF mp < 10 THEN mp + 2 ELSE mp - 10
        y   == yoe + era * 400 + (IF m <= 1 THEN 1 ELSE 0)
    IN  <<y, m, d>>

getFullYear(date) == CivilFromDays(DayOf(date))[1]

getMonth(date) == CivilFromDays(DayOf(date))[2]

getDate(date) == CivilFromDays(DayOf(date))[3]

\* new Date(y, m, d) at midnight
NewDate(y, m, d) == DaysFromCivil(y, m, d) * HoursPerDay

\* date.setFullYear(y): month, day of month and time of day are kept; a day
\* the month of the new year lacks rolls over into the next month
setFullYear(date, y) ==
    NewDate(y, getMonth(date), getDate(date)) + (date % HoursPerDay)

daysInMonth_Thirty(month, year) == 30

daysInMonth(month, year) == getDate(NewDate(year, month + 1, 0))

addDays_Hours(date, count) == date + count

addDays(date, count) == date + count * HoursPerDay

\* the quotient of line 955, not computed: only its comparison with a whole
\* number of days is
dayOffsetBelow(date1, date2, days) == date1 - date2 < days * HoursPerDay

----------------------------------------------------------------------------
(* recurringInterval: the interval type above 29 bits of magnitude.  The   *)
(* values stored are in 0 .. 2^31 - 1, where >> and & act on the number    *)
(* itself.                                                                 *)

intervalValueMask == 536870911

IntervalShift == 29

IntervalDay == 0
IntervalWeek == 1
IntervalMonth == 2
IntervalYear == 3

PackInterval(type, value) == type * 2^IntervalShift + value

IntervalTypeOf(recurringInterval) == recurringInterval \div 2^IntervalShift

\* a & b on two's-complement integers, for b >= 0
RECURSIVE BitAnd(_, _)
BitAnd(a, b) ==
    IF b = 0 THEN 0
    ELSE (a % 2) * (b % 2) + 2 * BitAnd(a \div 2, b \div 2)

IntervalValueOf_ShiftMask(recurringInterval) ==
    BitAnd(recurringInterval, 2^IntervalShift)

IntervalValueOf(recurringInterval) ==
    BitAnd(recurringInterval, intervalValueMask)

\* case 2: one addDays per unit, each by the length of the month reached
RECURSIVE AddMonths(_, _)
AddMonths(date, count) ==
    IF count <= 0 THEN date
    ELSE AddMonths(addDays(date, daysInMonth(getMonth(date), getFullYear(date))),
                   count - 1)

\* the switch on intervalType: newDate from expenseDate
NextDate(expenseDate, intervalType, intervalValue) ==
    CASE intervalType = IntervalDay -> addDays(expenseDate, intervalValue)
      [] intervalType = IntervalWeek -> addDays(expenseDate, 7 * intervalValue)
      [] intervalType = IntervalMonth -> AddMonths(expenseDate, intervalValue)
      [] intervalType = IntervalYear ->
             setFullYear(expenseDate, getFullYear(expenseDate) + intervalValue)
      [] OTHER -> expenseDate

\* newExpenseData; source records the document it was computed from
newExpenseData(e, expenseData) ==
    [exists |-> TRUE, cost |-> expenseData.cost, userId |-> expenseData.userId,
     date |-> NextDate(expenseData.date,
                       IntervalTypeOf(expenseData.recurringInterval),
                       IntervalValueOf(expenseData.recurringInterval)),
     recurring |-> TRUE, alreadyRecurred |-> FALSE,
     recurringInterval |-> expenseData.recurringInterval,
     name |-> expenseData.name, source |-> e]

IsDue_IgnoreMarked(expenseData, today) ==
    /\ expenseData.recurring
    /\ dayOffsetBelow(expenseData.date, today, 1)

\* isRecurring && days < 1, and alreadyRecurred is not true
IsDue(expenseData, today) ==
    /\ expenseData.recurring
    /\ dayOffsetBelow(expenseData.date, today, 1)
    /\ expenseData.alreadyRecurred # TRUE

----------------------------------------------------------------------------
(* checkRecurringAndBalance and checkRecurringForGroup *)

\* expensesSnapshot.docs: the documents of the collection, in id order
RECURSIVE ExpenseDocs(_, _)
ExpenseDocs(g, e) ==
    IF e > MaxExpenses THEN <<>>
    ELSE (IF expenses[g, e].exists
          THEN <<[e |-> e, data |-> expenses[g, e]]>> ELSE <<>>)
         \o ExpenseDocs(g, e + 1)

RecurringTask(g) ==
    [id |-> nCalls + 1, op |-> "checkRecurringForGroup", g |-> g,
     pc |-> "getExpenses", docs |-> <<>>, i |-> 1]

\* the job: one checkRecurringForGroup is started for every group document
\* and none is awaited.  The specification follows one run.
checkRecurringAndBalance ==
    /\ nCalls = 0
    /\ nCalls' = nCalls + 1
    /\ tasks' = tasks \cup {RecurringTask(g) : g \in {h \in GroupIds : groups[h].exists}}
    /\ UNCHANGED <<payments, groups, members, expenses, users, userExpenses, userGroups,
                   userPayments, events, writes, now, lastCall, nextId, stale>>

\* await expensesRef.get()
checkRecurringForGroupGet ==
    \E t \in tasks :
        /\ t.op = "checkRecurringForGroup"
        /\ t.pc = "getExpenses"
        /\ tasks' = (tasks \ {t}) \cup
               {[t EXCEPT !.pc = "loop", !.docs = ExpenseDocs(t.g, 1)]}
        /\ UNCHANGED <<payments, groups, members, expenses, users, userExpenses,
                       userGroups, userPayments, events, writes, now, lastCall,
                       nCalls, nextId, stale>>

\* an iteration over a document that is not due, or the end of the loop
checkRecurringForGroupSkip ==
    \E t \in tasks :
        /\ t.op = "checkRecurringForGroup"
        /\ t.pc = "loop"
        /\ IF t.i > Len(t.docs)
           THEN tasks' = (tasks \ {t}) \cup {[t EXCEPT !.pc = "done"]}
           ELSE /\ ~IsDue(t.docs[t.i].data, now)
                /\ tasks' = (tasks \ {t}) \cup {[t EXCEPT !.i = t.i + 1]}
        /\ UNCHANGED <<payments, groups, members, expenses, users, userExpenses,
                       userGroups, userPayments, events, writes, now, lastCall,
                       nCalls, nextId, stale>>

\* an iteration over a due document, up to
\* await expensesRef.doc().create(newExpenseData)
checkRecurringForGroupCreate ==
    \E t \in tasks :
        /\ t.op = "checkRecurringForGroup"
        /\ t.pc = "loop"
        /\ t.i <= Len(t.docs)
        /\ IsDue(t.docs[t.i].data, now)
        /\ nextId < MaxExpenses
        /\ LET new == newExpenseData(t.docs[t.i].e, t.docs[t.i].data)
           IN  /\ expenses' = [expenses EXCEPT ![t.g, nextId + 1] = new]
               /\ events' = events \cup
                      GroupExpenseTrigger(t.g, nextId + 1, NoExpense, new)
        /\ nextId' = nextId + 1
        /\ tasks' = (tasks \ {t}) \cup {[t EXCEPT !.pc = "mark"]}
        /\ UNCHANGED <<payments, groups, members, users, userExpenses, userGroups,
                       userPayments, writes, now, lastCall, nCalls, stale>>

checkRecurringForGroupMark_Repeat ==
    \E t \in tasks :
        /\ t.op = "checkRecurringForGroup"
        /\ t.pc = "mark"
        /\ writes' = writes \cup {[id |-> t.id, g |-> t.g, e |-> t.docs[t.i].e]}
        /\ tasks' = (tasks \ {t}) \cup {[t EXCEPT !.pc = "loop"]}
        /\ UNCHANGED <<payments, groups, members, expenses, users, userExpenses,
                       userGroups, userPayments, events, now, lastCall, nCalls,
                       nextId, stale>>

\* expenseDoc.ref.set({alreadyRecurred: true}, {merge: true}) is issued and
\* the loop goes on without awaiting it
checkRecurringForGroupMark ==
    \E t \in tasks :
        /\ t.op = "checkRecurringForGroup"
        /\ t.pc = "mark"
        /\ writes' = writes \cup {[id |-> t.id, g |-> t.g, e |-> t.docs[t.i].e]}
        /\ tasks' = (tasks \ {t}) \cup {[t EXCEPT !.pc = "loop", !.i = t.i + 1]}
        /\ UNCHANGED <<payments, groups, members, expenses, users, userExpenses,
                       userGroups, userPayments, events, now, lastCall, nCalls,
                       nextId, stale>>

\* a set issued by checkRecurringForGroup reaches the store
applyRecurred ==
    \E w \in writes :
        /\ LET after == [expenses[w.g, w.e] EXCEPT !.exists = TRUE,
                                                   !.alreadyRecurred = TRUE]
           IN  /\ expenses' = [expenses EXCEPT ![w.g, w.e] = after]
               /\ events' = events \cup
                      GroupExpenseTrigger(w.g, w.e, expenses[w.g, w.e], after)
        /\ writes' = writes \ {w}
        /\ UNCHANGED <<payments, groups, members, users, userExpenses, userGroups,
                       userPayments, tasks, now, lastCall, nCalls, nextId,
                       stale>>

----------------------------------------------------------------------------
(* Specification of the recurrence job: one run over two groups, each of   *)
(* which holds one expense.  The triggers of the job's writes stay         *)
(* pending: their handlers write no expense record.                        *)

MaxMagnitude == 2

\* 2020-01-31, 12:00
Today == NewDate(2020, 0, 31) + 12

ExpenseDates == {Today - 2 * HoursPerDay, Today, Today + 12, Today + HoursPerDay}

Intervals ==
    {PackInterval(type, value) :
        type \in {IntervalDay, IntervalWeek, IntervalMonth, IntervalYear},
        value \in 0..MaxMagnitude}

StoredExpenses ==
    {[exists |-> TRUE, cost |-> MaxCost, userId |-> "u2", date |-> d,
      recurring |-> r, alreadyRecurred |-> a, recurringInterval |-> ri,
      name |-> "rent", source |-> 0] :
        d \in ExpenseDates, r \in BOOLEAN, a \in BOOLEAN, ri \in Intervals}

\* the expense of the second group: of interval one day, due or marked
OtherExpenses ==
    {x \in StoredExpenses :
        /\ x.recurringInterval = PackInterval(IntervalDay, 1)
        /\ x.recurring
        /\ x.date = Today - 2 * HoursPerDay}

InitRecurrence ==
    /\ payments = NoPayments
    /\ groups = [g \in GroupIds |-> NewGroup]
    /\ members = [p \in GroupIds \X UserIds |-> NoMember]
    /\ \E x \in StoredExpenses, y \in OtherExpenses :
           expenses = [p \in GroupIds \X ExpenseIds |->
                          IF p = <<"g1", 1>> THEN x
                          ELSE IF p = <<"g2", 2>> THEN y ELSE NoExpense]
    /\ users = [u \in UserIds |-> NewUser]
    /\ userExpenses = [p \in UserIds \X ExpenseIds |-> NoUserExpense]
    /\ userPayments = [p \in UserIds \X ExpenseIds |-> NoUserPayment]
    /\ userGroups = [p \in UserIds \X GroupIds |-> NoUserGroup]
    /\ events = {}
    /\ tasks = {}
    /\ writes = {}
    /\ now = Today
    /\ lastCall = Idle
    /\ nCalls = 0
    /\ nextId = 2
    /\ stale = FALSE

NextRecurrence ==
    \/ checkRecurringAndBalance
    \/ checkRecurringForGroupGet
    \/ checkRecurringForGroupSkip
    \/ checkRecurringForGroupCreate
    \/ checkRecurringForGroupMark
    \/ applyRecurred

SpecRecurrence == InitRecurrence /\ [][NextRecurrence]_vars

\* the run has ended: every checkRecurringForGroup has returned and every
\* set it issued has reached the store
RunComplete ==
    /\ nCalls > 0
    /\ \A t \in tasks : t.pc = "done"
    /\ writes = {}

\* the records created from document e
SuccessorsOf(e) ==
    {p \in GroupIds \X ExpenseIds :
        expenses[p].exists /\ expenses[p].source = e}

\* what the run read of an expense: recurring, not marked, dated before now,
\* of interval Day
IsPastDayExpense(expenseData) ==
    /\ expenseData.recurring
    /\ expenseData.alreadyRecurred = FALSE
    /\ expenseData.date < now
    /\ IntervalTypeOf(expenseData.recurringInterval) = IntervalDay

IsDaySuccessor(new, g, p, expenseData) ==
    /\ p[1] = g
    /\ new.name = expenseData.name
    /\ new.cost = expenseData.cost
    /\ new.userId = expenseData.userId
    /\ new.recurringInterval = expenseData.recurringInterval
    /\ new.date = expenseData.date
           + IntervalValueOf(expenseData.recurringInterval) * HoursPerDay
    /\ new.recurring = TRUE
    /\ new.alreadyRecurred = FALSE

\* C7: for a recurring expense with alreadyRecurred=false, a date in the
\* past and interval Day of magnitude m, one run of the recurrence job
\* creates exactly one new expense, in the same group, with the same name,
\* cost, userId and recurringInterval, date = original date + m days,
\* recurring=true and alreadyRecurred=false, and sets alreadyRecurred=true on
\* the original.
C7_DayRecurrence ==
    RunComplete =>
        \A t \in tasks : \A i \in 1..Len(t.docs) :
            IsPastDayExpense(t.docs[i].data) =>
                /\ Cardinality(SuccessorsOf(t.docs[i].e)) = 1
                /\ \A p \in SuccessorsOf(t.docs[i].e) :
                       IsDaySuccessor(expenses[p], t.g, p, t.docs[i].data)
                /\ expenses[t.g, t.docs[i].e].alreadyRecurred = TRUE

\* a run has ended in which both groups held a past expense of interval Day,
\* the first group's of magnitude MaxMagnitude
C7_Witness ==
    /\ RunComplete
    /\ \A t \in tasks : \E i \in 1..Len(t.docs) :
           /\ IsPastDayExpense(t.docs[i].data)
           /\ SuccessorsOf(t.docs[i].e) # {}
    /\ \E t \in tasks : \E i \in 1..Len(t.docs) :
           /\ IsPastDayExpense(t.docs[i].data)
           /\ IntervalValueOf(t.docs[i].data.recurringInterval) = MaxMagnitude

----------------------------------------------------------------------------
(* The interval codec alone: a recurringInterval packed from a type and a  *)
(* magnitude is decoded as lines 812-813 decode it                         *)

\* magnitudes at both ends of 0 .. 2^29 - 1 and the powers of two between
Magnitudes ==
    (0..MaxMagnitude)
    \cup {intervalValueMask - k : k \in 0..MaxMagnitude}
    \cup {2^k : k \in 0..(IntervalShift - 1)}

IntervalTypes == {IntervalDay, IntervalWeek, IntervalMonth, IntervalYear}

\* the locals of the iteration that decodes; type and value are what the
\* stored number was packed from
DecodeTask(type, value) ==
    [op |-> "decodeInterval", pc |-> "decode", type |-> type, value |-> value,
     recurringInterval |-> PackInterval(type, value),
     intervalType |-> Undefined, intervalValue |-> Undefined]

InitCodec ==
    /\ payments = NoPayments
    /\ groups = [g \in GroupIds |-> NewGroup]
    /\ members = [p \in GroupIds \X UserIds |-> NoMember]
    /\ expenses = [p \in GroupIds \X ExpenseIds |-> NoExpense]
    /\ users = [u \in UserIds |-> NewUser]
    /\ userExpenses = [p \in UserIds \X ExpenseIds |-> NoUserExpense]
    /\ userPayments = [p \in UserIds \X ExpenseIds |-> NoUserPayment]
    /\ userGroups = [p \in UserIds \X GroupIds |-> NoUserGroup]
    /\ events = {}
    /\ \E type \in IntervalTypes, value \in Magnitudes :
           tasks = {DecodeTask(type, value)}
    /\ writes = {}
    /\ now = 0
    /\ lastCall = Idle
    /\ nCalls = 0
    /\ nextId = 0
    /\ stale = FALSE

\* const intervalType = recurringInterval >> 29;
\* const intervalValue = recurringInterval & intervalValueMask;
decodeInterval ==
    \E t \in tasks :
        /\ t.op = "decodeInterval"
        /\ t.pc = "decode"
        /\ tasks' = (tasks \ {t}) \cup
               {[t EXCEPT !.pc = "decoded",
                          !.intervalType = IntervalTypeOf(t.recurringInterval),
                          !.intervalValue = IntervalValueOf(t.recurringInterval)]}
        /\ UNCHANGED <<payments, groups, members, expenses, users, userExpenses,
                       userGroups, userPayments, events, writes, now, lastCall,
                       nCalls, nextId, stale>>

NextCodec == decodeInterval

SpecCodec == InitCodec /\ [][NextCodec]_vars

\* C11: for every type in {0,1,2,3} and every magnitude in 0 .. 2^29 - 1,
\* decoding type * 2^29 + magnitude with >> 29 and & 0x1FFFFFFF returns
\* exactly (type, magnitude).
C11_CodecRoundTrip ==
    \A t \in tasks :
        t.pc = "decoded" =>
            /\ t.intervalType = t.type
            /\ t.intervalValue = t.value

\* the largest magnitude under the largest type has been decoded
C11_Witness ==
    \E t \in tasks :
        /\ t.pc = "decoded"
        /\ t.type = IntervalYear
        /\ t.value = intervalValueMask
        /\ t.intervalValue = intervalValueMask

----------------------------------------------------------------------------
(* The date of the successor alone: lines 812-835 applied to an expense    *)
(* date and a recurringInterval                                            *)

SampleYears == {2019, 2020, 2100}

SampleDays == {1, 15, 28, 29, 30, 31}

\* noon of days at the start, the middle and the end of every month of a
\* common year, a leap year and a century year that is not one
SampleDates ==
    {NewDate(y, m, d) + 12 : y \in SampleYears, m \in 0..11, d \in SampleDays}

NewDateTask(expenseDate, type, value) ==
    [op |-> "newDate", pc |-> "decode", expenseDate |-> expenseDate,
     type |-> type, value |-> value,
     recurringInterval |-> PackInterval(type, value), newDate |-> expenseDate]

InitNewDate ==
    /\ payments = NoPayments
    /\ groups = [g \in GroupIds |-> NewGroup]
    /\ members = [p \in GroupIds \X UserIds |-> NoMember]
    /\ expenses = [p \in GroupIds \X ExpenseIds |-> NoExpense]
    /\ users = [u \in UserIds |-> NewUser]
    /\ userExpenses = [p \in UserIds \X ExpenseIds |-> NoUserExpense]
    /\ userPayments = [p \in UserIds \X ExpenseIds |-> NoUserPayment]
    /\ userGroups = [p \in UserIds \X GroupIds |-> NoUserGroup]
    /\ events = {}
    /\ \E d \in SampleDates, type \in IntervalTypes, value \in 0..MaxMagnitude :
           tasks = {NewDateTask(d, type, value)}
    /\ writes = {}
    /\ now = 0
    /\ lastCall = Idle
    /\ nCalls = 0
    /\ nextId = 0
    /\ stale = FALSE

\* const newDate = new Date(expenseDate); switch (intervalType) { ... }
computeNewDate ==
    \E t \in tasks :
        /\ t.op = "newDate"
        /\ t.pc = "decode"
        /\ tasks' = (tasks \ {t}) \cup
               {[t EXCEPT !.pc = "switched",
                          !.newDate =
                              NextDate(t.expenseDate,
                                       IntervalTypeOf(t.recurringInterval),
                                       IntervalValueOf(t.recurringInterval))]}
        /\ UNCHANGED <<payments, groups, members, expenses, users, userExpenses,
                       userGroups, userPayments, events, writes, now, lastCall,
                       nCalls, nextId, stale>>

NextNewDate == computeNewDate

SpecNewDate == InitNewDate /\ [][NextNewDate]_vars

\* the calendar, stated apart from Date: the lengths of the months
IsLeapYear(y) == (y % 4 = 0 /\ y % 100 # 0) \/ y % 400 = 0

MonthLengths == <<31, 28, 31, 30, 31, 30, 31, 31, 30, 31, 30, 31>>

MonthLength(month, year) ==
    IF month = 1 /\ IsLeapYear(year) THEN 29 ELSE MonthLengths[month + 1]

\* k steps, each of the length of the month the running date lies in
RECURSIVE MonthWalk(_, _)
MonthWalk(date, k) ==
    IF k = 0 THEN date
    ELSE MonthWalk(date + MonthLength(getMonth(date), getFullYear(date))
                              * HoursPerDay,
                   k - 1)

\* C12: for a Month-type interval of magnitude k the successor date is the
\* source date advanced by k successive steps, each adding the number of
\* days of the calendar month (leap years respected) in which the running
\* date lies; from Jan 31 with magnitude 2 that is 31 days and then the
\* length of the month reached, not 60 days.
C12_MonthSteps ==
    \A t \in tasks :
        (t.pc = "switched" /\ t.type = IntervalMonth) =>
            /\ t.newDate = MonthWalk(t.expenseDate, t.value)
            /\ (t.value = 2 /\ getMonth(t.expenseDate) = 0
                            /\ getDate(t.expenseDate) = 31) =>
                   /\ t.newDate = t.expenseDate + (31 + 31) * HoursPerDay
                   /\ t.newDate # t.expenseDate + 60 * HoursPerDay

\* Jan 31 of the leap year was advanced by two months and is Apr 2
C12_Witness ==
    \E t \in tasks :
        /\ t.pc = "switched"
        /\ t.type = IntervalMonth
        /\ t.value = 2
        /\ t.expenseDate = NewDate(2020, 0, 31) + 12
        /\ getMonth(t.newDate) = 3
        /\ getDate(t.newDate) = 2

----------------------------------------------------------------------------
(* Further properties of the recurrence job (SpecRecurrence) *)

\* the documents a run has read, with the group they were read in
DocsRead ==
    UNION {{[g |-> t.g, e |-> t.docs[i].e, data |-> t.docs[i].data] :
               i \in 1..Len(t.docs)} : t \in tasks}

\* recurring, dayOffset(expenseDate, now) < 1, alreadyRecurred not true
IsRecurringDue(d) ==
    /\ d.data.recurring = TRUE
    /\ d.data.date - now < HoursPerDay
    /\ d.data.alreadyRecurred # TRUE

C14_OneSuccessorPerRun ==
    \A d \in DocsRead :
        /\ Cardinality(SuccessorsOf(d.e)) <= 1
        /\ \A p \in SuccessorsOf(d.e) :
               /\ SuccessorsOf(p[2]) = {}
               /\ expenses[p].alreadyRecurred = FALSE
               /\ \A w \in writes : w.e # p[2]

\* a run has ended in which an expense two daily cycles back got its one
\* successor, which is due as well and was not expanded
C14_Witness ==
    /\ RunComplete
    /\ \E d \in DocsRead :
           /\ d.data.recurringInterval = PackInterval(IntervalDay, 1)
           /\ d.data.date + 2 * HoursPerDay <= now
           /\ \E p \in SuccessorsOf(d.e) :
                  /\ IsDue(expenses[p], now)
                  /\ SuccessorsOf(p[2]) = {}

----------------------------------------------------------------------------
(* The recurrence job with a store that may reject the create of a         *)
(* successor                                                               *)

checkRecurringForGroupCreateFails_Swallowed ==
    \E t \in tasks :
        /\ t.op = "checkRecurringForGroup"
        /\ t.pc = "loop"
        /\ t.i <= Len(t.docs)
        /\ IsDue(t.docs[t.i].data, now)
        /\ tasks' = (tasks \ {t}) \cup {[t EXCEPT !.pc = "mark"]}
        /\ UNCHANGED <<payments, groups, members, expenses, users, userExpenses,
                       userGroups, userPayments, events, writes, now, lastCall,
                       nCalls, nextId, stale>>

\* await expensesRef.doc().create(newExpenseData) rejects: the await throws
\* and checkRecurringForGroup ends there
checkRecurringForGroupCreateFails ==
    \E t \in tasks :
        /\ t.op = "checkRecurringForGroup"
        /\ t.pc = "loop"
        /\ t.i <= Len(t.docs)
        /\ IsDue(t.docs[t.i].data, now)
        /\ tasks' = (tasks \ {t}) \cup {[t EXCEPT !.pc = "failed"]}
        /\ UNCHANGED <<payments, groups, members, expenses, users, userExpenses,
                       userGroups, userPayments, events, writes, now, lastCall,
                       nCalls, nextId, stale>>

NextRecurrenceFailing ==
    \/ NextRecurrence
    \/ checkRecurringForGroupCreateFails

SpecRecurrenceFailing == InitRecurrence /\ [][NextRecurrenceFailing]_vars

\* C15: for each due expense the job processes, the write that sets
\* alreadyRecurred=true on the source is issued only after the creation of
\* the successor has completed; if the creation fails, the source is not
\* marked alreadyRecurred=true in that run.
C15_MarkOnlyAfterCreate ==
    /\ \A w \in writes : SuccessorsOf(w.e) # {}
    /\ \A d \in DocsRead :
           (d.data.alreadyRecurred = FALSE /\ expenses[d.g, d.e].alreadyRecurred)
               => SuccessorsOf(d.e) # {}
    /\ \A t \in tasks :
           t.pc = "failed" =>
               /\ \A w \in writes : w.e # t.docs[t.i].e
               /\ expenses[t.g, t.docs[t.i].e] = t.docs[t.i].data
               /\ SuccessorsOf(t.docs[t.i].e) = {}

\* one group's create was rejected and its expense is as it was; the other
\* group's expense has its successor and is marked
C15_Witness ==
    /\ \E t \in tasks :
           /\ t.pc = "failed"
           /\ expenses[t.g, t.docs[t.i].e].alreadyRecurred = FALSE
    /\ \E d \in DocsRead :
           /\ d.data.alreadyRecurred = FALSE
           /\ expenses[d.g, d.e].alreadyRecurred
           /\ SuccessorsOf(d.e) # {}
    /\ writes = {}

----------------------------------------------------------------------------
(* Further properties of the balance scan (SpecBalanceScan) *)

\* the sum over all the user's UserGroup mirrors of
\* personalPayments - totalExpenses / numMembers
RECURSIVE TotalBalance(_, _)
TotalBalance(u, docs) ==
    IF docs = <<>> THEN 0
    ELSE JsAdd(personalBalance(userGroups[u, Head(docs)]),
               TotalBalance(u, Tail(docs)))

MinOf(a, b) == IF a < b THEN a ELSE b

\* C16: after a balance scan of a user has completed, the stored
\* maxNegativeBalance equals min(value stored before the scan, S), S being
\* the sum over all of the user's UserGroup mirrors of
\* personalPayments - totalExpenses / numMembers; it is never a partial sum
\* over some of the groups.  The value before the first scan is that of
\* NewUser, and the mirrors are fixed.
C16_ScanStoresMinOfTotal ==
    (/\ nCalls > 0
     /\ tasks = {}
     /\ IsNum(TotalBalance(Owner, UserGroupDocs(Owner))))
        => users[Owner].maxNegativeBalance =
               MinOf(NewUser.maxNegativeBalance,
                     TotalBalance(Owner, UserGroupDocs(Owner)))

----------------------------------------------------------------------------
(* Further properties of the expense handlers (SpecExpenses) *)

\* C17: after onGroupExpensesWrite has completed for each of a sequence of
\* creates, updates (of any field, userId included) and deletes of expenses,
\* for every user u and expense id e the mirror users/u/expenses/e exists if
\* and only if the group expense e exists with userId = u, and then the
\* mirror's cost equals the group expense's cost.
C17_MirrorIffExpense ==
    NoPending("groupExpense") =>
        \A u \in UserIds, e \in ExpenseIds :
            /\ userExpenses[u, e].exists <=>
                   \E g \in GroupIds :
                       expenses[g, e].exists /\ expenses[g, e].userId = u
            /\ \A g \in GroupIds :
                   (expenses[g, e].exists /\ expenses[g, e].userId = u) =>
                       userExpenses[u, e].cost = expenses[g, e].cost

----------------------------------------------------------------------------
(* The UserGroup mirrors users/{u}/groups/{g}: onGroupMembersWrite and     *)
(* onGroupUpdate, with the writes that trigger them: member documents set  *)
(* and deleted, and the member and group totals set by the tails of        *)
(* onGroupExpensesWrite and onGroupPaymentsWrite                           *)

MaxMirrorWrites == 2

\* setGroupMemberPayments: a merge-set of totalPayments on the member
\* document, which creates the document when it is absent
setGroupMemberPayments(ms, g, uid, paymentBefore, paymentAfter) ==
    LET groupMemberData == ms[g, uid]
    IN  [ms EXCEPT ![g, uid] =
            [groupMemberData EXCEPT
                !.exists = TRUE,
                !.totalPayments =
                    Delta(groupMemberData.totalPayments, paymentBefore,
                          paymentAfter)]]

\* the onWrite trigger of groups/{g}/members/{u}
MemberWriteTrigger(id, g, u, before, after) ==
    IF before = after THEN {}
    ELSE {[kind |-> "memberWrite", g |-> g, u |-> u, e |-> id,
           before |-> before, after |-> after]}

\* the onUpdate trigger of groups/{g}
GroupUpdateTrigger(id, g, before, after) ==
    IF before = after \/ ~before.exists \/ ~after.exists THEN {}
    ELSE {[kind |-> "groupUpdate", g |-> g, u |-> "undefined", e |-> id,
           before |-> before, after |-> after]}

\* a member document is set (addUserToGroup) or deleted (leaveGroup,
\* kickMemberFromGroup)
WriteMember ==
    \E g \in GroupIds, u \in UserIds, after \in {NewMember("member"), NoMember} :
        /\ nCalls < MaxMirrorWrites
        /\ groups[g].exists
        /\ members[g, u] # after
        /\ members' = [members EXCEPT ![g, u] = after]
        /\ events' = events \cup
               MemberWriteTrigger(nCalls + 1, g, u, members[g, u], after)
        /\ nCalls' = nCalls + 1
        /\ UNCHANGED <<payments, groups, expenses, users, userExpenses, userGroups,
                       userPayments, tasks, writes, now, lastCall, nextId,
                       stale>>

\* the totals an expense or payment handler sets once it has handled a
\* write of userId u that changes the amount from before to after
SetTotals(g, ms, field) ==
    LET groupData == groups[g]
        after == [groupData EXCEPT ![field] = ms[2]]
    IN  /\ nCalls < MaxMirrorWrites
        /\ groupData.exists
        /\ members' = ms[1]
        /\ groups' = [groups EXCEPT ![g] = after]
        /\ events' = events
               \cup UNION {MemberWriteTrigger(nCalls + 1, g, u, members[g, u],
                                              ms[1][g, u]) : u \in UserIds}
               \cup GroupUpdateTrigger(nCalls + 1, g, groupData, after)
        /\ nCalls' = nCalls + 1
        /\ UNCHANGED <<payments, expenses, userExpenses, userGroups, userPayments,
                       tasks, writes, now, lastCall, nextId, stale>>

Amounts == 0..MaxCost

\* the create and the changed branch of the expense and payment handlers
\* call createUserDocIfNotExists(data.userId), the deleted branch does not
EnsureUser(u, after) ==
    users' = IF after # 0 THEN createUserDocIfNotExists(users, u) ELSE users

\* onGroupExpensesWrite from createUserDocIfNotExists on
ExpenseTotals ==
    \E g \in GroupIds, u \in UserIds, before \in Amounts, after \in Amounts :
        /\ before # after
        /\ EnsureUser(u, after)
        /\ SetTotals(g, <<setGroupMemberExpenses(members, g, u, before, after),
                          Delta(groups[g].totalExpenses, before, after)>>,
                     "totalExpenses")

\* onGroupPaymentsWrite from createUserDocIfNotExists on
PaymentTotals ==
    \E g \in GroupIds, u \in UserIds, before \in Amounts, after \in Amounts :
        /\ before # after
        /\ EnsureUser(u, after)
        /\ SetTotals(g, <<setGroupMemberPayments(members, g, u, before, after),
                          Delta(groups[g].totalPayments, before, after)>>,
                     "totalPayments")

\* the onCreate / onDelete triggers of users/{u}/groups/{g}; the store gives
\* every event an id of its own
UserGroupTrigger(id, u, g, before, after) ==
    IF before.exists = after.exists THEN {}
    ELSE {[kind |-> IF after.exists THEN "userGroupCreate"
                    ELSE "userGroupDelete",
           g |-> g, u |-> u, e |-> id]}

\* users/{u}/groups/{g} becomes after: the document and the trigger raised
WriteUserGroup(u, g, after, pending) ==
    LET raised == UserGroupTrigger(nextId + 1, u, g, userGroups[u, g], after)
    IN  /\ userGroups' = [userGroups EXCEPT ![u, g] = after]
        /\ events' = pending \cup raised
        /\ nextId' = nextId + Cardinality(raised)

\* onGroupMembersWrite, document deleted: userGroupRef.delete()
onGroupMembersWriteDelete ==
    \E ev \in events :
        /\ ev.kind = "memberWrite"
        /\ ~ev.after.exists
        /\ WriteUserGroup(ev.u, ev.g, NoUserGroup, events \ {ev})
        /\ UNCHANGED <<payments, groups, members, expenses, users, userExpenses,
                       userPayments, tasks, writes, now, lastCall, nCalls,
                       stale>>

\* onGroupMembersWrite, document changed: up to await groupRef.get()
onGroupMembersWriteGet ==
    \E ev \in events :
        /\ ev.kind = "memberWrite"
        /\ ev.after.exists
        /\ events' = events \ {ev}
        /\ tasks' = tasks \cup
               {[id |-> ev.e, op |-> "onGroupMembersWrite", g |-> ev.g,
                 u |-> ev.u, data |-> ev.after, pc |-> "set"]}
        /\ UNCHANGED <<payments, groups, members, expenses, users, userExpenses,
                       userGroups, userPayments, writes, now, lastCall, nCalls,
                       nextId, stale>>

\* a field of a document to set holds undefined: set() throws
HasUndefined(data) ==
    data.totalExpenses = Undefined \/ data.totalPayments = Undefined

\* onGroupMembersWrite, document changed: the test of groupDoc.exists and
\* userGroupRef.set({name, personalExpenses, personalPayments}, merge)
onGroupMembersWriteSet ==
    \E t \in tasks :
        /\ t.op = "onGroupMembersWrite"
        /\ tasks' = tasks \ {t}
        /\ IF groups[t.g].exists /\ ~HasUndefined(t.data)
           THEN WriteUserGroup(t.u, t.g,
                    SetMerge(userGroups[t.u, t.g],
                             [personalExpenses |-> t.data.totalExpenses,
                              personalPayments |-> t.data.totalPayments]),
                    events)
           ELSE UNCHANGED <<userGroups, events, nextId>>
        /\ UNCHANGED <<payments, groups, members, expenses, users, userExpenses,
                       userPayments, writes, now, lastCall, nCalls, stale>>

\* onGroupUpdate: the members are listed, a set is issued for each of them,
\* and Promise.all of the values the map callback returned (undefined, the
\* arrow function has a block body without return) resolves
onGroupUpdate ==
    \E ev \in events :
        /\ ev.kind = "groupUpdate"
        /\ events' = events \ {ev}
        /\ writes' = writes \cup
               {[id |-> ev.e, g |-> ev.g, u |-> u,
                 data |-> [totalExpenses |-> ev.after.totalExpenses,
                           numMembers |-> ev.after.numMembers]] :
                    u \in {v \in UserIds : members[ev.g, v].exists}}
        /\ lastCall' = [Outcome("onGroupUpdate", ev.g, "undefined", 0, "ok")
                            EXCEPT !.id = ev.e]
        /\ UNCHANGED <<payments, groups, members, expenses, users, userExpenses,
                       userGroups, userPayments, tasks, now, nCalls, nextId,
                       stale>>

\* a set issued by onGroupUpdate reaches the store
applyUserGroupSet ==
    \E w \in writes :
        /\ writes' = writes \ {w}
        /\ WriteUserGroup(w.u, w.g, SetMerge(userGroups[w.u, w.g], w.data),
                          events)
        /\ UNCHANGED <<payments, groups, members, expenses, users, userExpenses,
                       userPayments, tasks, now, lastCall, nCalls, stale>>

\* a set issued by onGroupUpdate is rejected by the store: the promise it
\* returned is held by nobody
rejectUserGroupSet ==
    \E w \in writes :
        /\ writes' = writes \ {w}
        /\ UNCHANGED <<payments, groups, members, expenses, users, userExpenses,
                       userGroups, userPayments, events, tasks, now, lastCall,
                       nCalls, nextId, stale>>

\* onUserGroupsCreate / onUserGroupsDelete up to await userRef.get();
\* data() of a snapshot of no document is undefined and reading numGroups
\* of it throws
UserGroupsHandlerGet(kind, op) ==
    \E ev \in events :
        /\ ev.kind = kind
        /\ events' = events \ {ev}
        /\ LET t == [Task(ev.e, op, ev.g, ev.u, "undefined", "setUser")
                        EXCEPT !.read = users[ev.u].numGroups]
           IN  IF ~users[ev.u].exists
               THEN /\ tasks' = tasks
                    /\ lastCall' = Step(t, "return", "TypeError")
               ELSE /\ tasks' = tasks \cup {t}
                    /\ lastCall' = Step(t, "setUser", "pending")
        /\ UNCHANGED <<payments, groups, members, expenses, users, userExpenses,
                       userGroups, userPayments, writes, now, nCalls, nextId,
                       stale>>

NumGroupsAfterCreate(numGroups) == JsAdd(numGroups, 1)

NumGroupsAfterDelete_Keep(numGroups) == numGroups

NumGroupsAfterDelete(numGroups) == JsSub(numGroups, 1)

\* userRef.set({ numGroups }, { merge: true })
UserGroupsHandlerSet(op) ==
    \E t \in tasks :
        /\ t.op = op
        /\ t.pc = "setUser"
        /\ users' = [users EXCEPT ![t.u] =
               SetMerge(users[t.u],
                        [numGroups |-> IF op = "onUserGroupsCreate"
                                       THEN NumGroupsAfterCreate(t.read)
                                       ELSE NumGroupsAfterDelete(t.read)])]
        /\ stale' = (stale \/ users[t.u].numGroups # t.read)
        /\ Return(t, "ok")
        /\ UNCHANGED <<payments, groups, members, expenses, userExpenses,
                       userGroups, userPayments, events, writes, now, nCalls,
                       nextId>>

onUserGroupsCreateGet == UserGroupsHandlerGet("userGroupCreate", "onUserGroupsCreate")

onUserGroupsCreateSet == UserGroupsHandlerSet("onUserGroupsCreate")

onUserGroupsDeleteGet == UserGroupsHandlerGet("userGroupDelete", "onUserGroupsDelete")

onUserGroupsDeleteSet == UserGroupsHandlerSet("onUserGroupsDelete")

\* group g1 with its creator u1, mirrored; u2 is no member of it
InitMirrors ==
    /\ payments = NoPayments
    /\ groups = [g \in GroupIds |->
                    IF g = "g1" THEN [NewGroup EXCEPT !.numMembers = 1]
                    ELSE NoGroup]
    /\ members = [p \in GroupIds \X UserIds |->
                    IF p = <<"g1", "u1">> THEN NewMember("admin") ELSE NoMember]
    /\ expenses = [p \in GroupIds \X ExpenseIds |-> NoExpense]
    /\ users = [u \in UserIds |->
                    [NewUser EXCEPT !.numGroups = NumGroupsOf(members, u)]]
    /\ userExpenses = [p \in UserIds \X ExpenseIds |-> NoUserExpense]
    /\ userPayments = [p \in UserIds \X ExpenseIds |-> NoUserPayment]
    /\ userGroups = [p \in UserIds \X GroupIds |->
                    IF members[p[2], p[1]].exists
                    THEN UserGroupOf(groups[p[2]], members[p[2], p[1]])
                    ELSE NoUserGroup]
    /\ events = {}
    /\ tasks = {}
    /\ writes = {}
    /\ now = 0
    /\ lastCall = Idle
    /\ nCalls = 0
    /\ nextId = 0
    /\ stale = FALSE

NextMirrors ==
    \/ WriteMember
    \/ ExpenseTotals
    \/ PaymentTotals
    \/ onGroupMembersWriteDelete
    \/ onGroupMembersWriteGet
    \/ onGroupMembersWriteSet
    \/ onGroupUpdate
    \/ applyUserGroupSet
    \/ rejectUserGroupSet
    \/ onUserGroupsCreateGet
    \/ onUserGroupsCreateSet
    \/ onUserGroupsDeleteGet
    \/ onUserGroupsDeleteSet

SpecMirrors == InitMirrors /\ [][NextMirrors]_vars

MirrorMatchesMember(g, u) ==
    /\ userGroups[u, g].exists <=> members[g, u].exists
    /\ members[g, u].exists =>
           /\ userGroups[u, g].personalExpenses = members[g, u].totalExpenses
           /\ userGroups[u, g].personalPayments = members[g, u].totalPayments

\* C18: in every quiescent state reachable by any interleaving of member
\* writes, expense and payment writes and the handlers they trigger, the
\* UserGroup mirror users/u/groups/g exists if and only if the Member record
\* groups/g/members/u exists, and then its personalExpenses and
\* personalPayments equal the Member's totalExpenses and totalPayments.
C18_MirrorIffMember ==
    Quiescent => \A g \in GroupIds, u \in UserIds : MirrorMatchesMember(g, u)

\* C19: an onGroupUpdate invocation reports success only after the
\* UserGroup mirror write for every current member of the group has
\* completed (and fails if one of those writes fails): once it has returned
\* successfully none of the sets it issued is still on its way.
C19_SuccessAfterWrites ==
    (lastCall.op = "onGroupUpdate" /\ lastCall.result = "ok") =>
        \A w \in writes : w.id # lastCall.id

----------------------------------------------------------------------------
(* onGroupDelete: the member documents of the deleted group are listed,    *)
(* one delete is issued per listed document and Promise.all joins them.    *)
(* Deleting groups/{g} leaves the documents of its subcollections in place *)

\* the onDelete trigger of groups/{g}
GroupDeleteTrigger(id, g) == [kind |-> "groupDelete", g |-> g, e |-> id]

\* a client deletes the document groups/{g}
deleteGroup ==
    \E g \in GroupIds :
        /\ nCalls < MaxCalls
        /\ groups[g].exists
        /\ groups' = [groups EXCEPT ![g] = NoGroup]
        /\ events' = events \cup {GroupDeleteTrigger(nCalls + 1, g)}
        /\ nCalls' = nCalls + 1
        /\ lastCall' = Step(Task(nCalls + 1, "deleteGroup", g, "undefined",
                                 "undefined", "return"), "return", "ok")
        /\ UNCHANGED <<payments, members, expenses, users, userExpenses,
                       userGroups, userPayments, tasks, writes, now, nextId,
                       stale>>

listDocuments_Admins(ms, g) ==
    {u \in UserIds : ms[g, u].exists /\ ms[g, u].role = "admin"}

\* snapshot.ref.collection('members').listDocuments()
listDocuments(ms, g) == {u \in UserIds : ms[g, u].exists}

\* onGroupDelete up to Promise.all: every ref.delete() has been issued
onGroupDeleteList ==
    \E ev \in events :
        /\ ev.kind = "groupDelete"
        /\ events' = events \ {ev}
        /\ LET t == Task(ev.e, "onGroupDelete", ev.g, "undefined",
                         "undefined", "join")
           IN  /\ tasks' = tasks \cup {t}
               /\ lastCall' = Step(t, "join", "pending")
               /\ writes' = writes \cup
                      {[id |-> t.id, g |-> ev.g, u |-> u] :
                          u \in listDocuments(members, ev.g)}
        /\ UNCHANGED <<payments, groups, members, expenses, users,
                       userExpenses, userGroups, userPayments, now, nCalls,
                       nextId, stale>>

\* the store applies one of the deletes issued by onGroupDelete
applyMemberDelete ==
    \E w \in writes : \E t \in tasks :
        /\ t.op = "onGroupDelete"
        /\ t.id = w.id
        /\ writes' = writes \ {w}
        /\ members' = [members EXCEPT ![w.g, w.u] = NoMember]
        /\ events' = events \cup
               MemberTrigger(w.id, w.g, w.u, members[w.g, w.u], NoMember)
        /\ tasks' = tasks
        /\ lastCall' = Step(t, "join", "pending")
        /\ UNCHANGED <<payments, groups, expenses, users, userExpenses,
                       userGroups, userPayments, now, nCalls, nextId, stale>>

\* Promise.all(fetchList) resolves: every delete has been applied
onGroupDeleteDone ==
    \E t \in tasks :
        /\ t.op = "onGroupDelete"
        /\ t.pc = "join"
        /\ \A w \in writes : w.id # t.id
        /\ Return(t, "ok")
        /\ UNCHANGED <<payments, groups, members, expenses, users,
                       userExpenses, userGroups, userPayments, events, writes,
                       now, nCalls, nextId, stale>>

FirstPayment == [exists |-> TRUE, payment |-> 1, userId |-> "u1"]

\* group g1 of InitMembership with one payment; u2 has joined it or not
InitGroupDelete ==
    \E joined \in BOOLEAN :
        /\ payments = [p \in GroupIds \X ExpenseIds |->
                        IF p = <<"g1", 1>> THEN FirstPayment ELSE NoPayment]
        /\ groups = [g \in GroupIds |->
                        IF g = "g1"
                        THEN [NewGroup EXCEPT
                                 !.numMembers = IF joined THEN 2 ELSE 1,
                                 !.totalExpenses = 1, !.totalPayments = 1]
                        ELSE NoGroup]
        /\ members = [p \in GroupIds \X UserIds |->
                        IF p = <<"g1", "u1">>
                        THEN [NewMember("admin") EXCEPT !.totalExpenses = 1,
                                                        !.totalPayments = 1]
                        ELSE IF p = <<"g1", "u2">> /\ joined
                             THEN NewMember("member")
                             ELSE NoMember]
        /\ expenses = [p \in GroupIds \X ExpenseIds |->
                        IF p = <<"g1", 1>> THEN FirstExpense ELSE NoExpense]
        /\ users = [u \in UserIds |->
                        IF u = "u1"
                        THEN [NewUser EXCEPT !.numGroups = 1,
                                             !.totalExpenses = 1,
                                             !.totalPayments = 1,
                                             !.expensesCount = 1,
                                             !.paymentsCount = 1]
                        ELSE [NewUser EXCEPT
                                 !.numGroups = IF joined THEN 1 ELSE 0]]
        /\ userExpenses = [p \in UserIds \X ExpenseIds |->
                        IF p = <<"u1", 1>> THEN UserExpenseOf("g1", 1)
                        ELSE NoUserExpense]
        /\ userGroups = [p \in UserIds \X GroupIds |->
                        IF members[p[2], p[1]].exists
                        THEN UserGroupOf(groups[p[2]], members[p[2], p[1]])
                        ELSE NoUserGroup]
        /\ userPayments = [p \in UserIds \X ExpenseIds |->
                        IF p = <<"u1", 1>> THEN UserPaymentOf(1)
                        ELSE NoUserPayment]
        /\ events = {}
        /\ tasks = {}
        /\ writes = {}
        /\ now = 0
        /\ lastCall = Idle
        /\ nCalls = 0
        /\ nextId = 2
        /\ stale = FALSE

NextGroupDelete ==
    \/ deleteGroup
    \/ joinGroup
    \/ addUserToGroupGet
    \/ addUserToGroupSet
    \/ onGroupDeleteList
    \/ applyMemberDelete
    \/ onGroupDeleteDone
    \/ onGroupMemberCreateGet
    \/ onGroupMemberCreateSet
    \/ onGroupMemberDeleteGet
    \/ onGroupMemberDeleteSet

SpecGroupDelete == InitGroupDelete /\ [][NextGroupDelete]_vars

\* the invocation of onGroupDelete has just returned
GroupDeleteCompleted ==
    lastCall.op = "onGroupDelete" /\ lastCall.pc = "return"

\* C20: after onGroupDelete has completed for a deleted group, no Member
\* record remains under that group, while every Expense and Payment record
\* under that group is left unchanged by the handler.
C20_NoMemberRemains ==
    GroupDeleteCompleted =>
        \A u \in UserIds : ~members[lastCall.g, u].exists

\* C20 (amended): onGroupDelete issues a delete for every Member record
\* that is under the group when it lists the members, each of these deletes
\* removes its record, the handler completes only when all of them have
\* been applied, and no step of the handler changes an Expense or a Payment
\* record. A Member record set after the listing is not covered.
C20_ListedMembersDeleted ==
    [][/\ \A ev \in events \ events' :
              ev.kind = "groupDelete" =>
                  /\ \A u \in UserIds :
                         members[ev.g, u].exists =>
                             [id |-> ev.e, g |-> ev.g, u |-> u] \in writes'
                  /\ UNCHANGED <<expenses, payments>>
       /\ \A w \in writes \ writes' :
              /\ ~members'[w.g, w.u].exists
              /\ UNCHANGED <<expenses, payments>>
       /\ \A t \in tasks \ tasks' :
              t.op = "onGroupDelete" =>
                  /\ \A w \in writes' : w.id # t.id
                  /\ UNCHANGED <<expenses, payments>>]_vars

\* onGroupDelete has completed after deleting both members of g1, whose
\* expense and payment are still there
C20_Witness ==
    /\ GroupDeleteCompleted
    /\ lastCall.g = "g1"
    /\ nCalls = 1
    /\ stale = FALSE
    /\ \A u \in UserIds : ~members["g1", u].exists
    /\ \E ev \in events : ev.kind = "memberDelete" /\ ev.u = "u2"
    /\ expenses["g1", 1] = FirstExpense
    /\ payments["g1", 1] = FirstPayment

----------------------------------------------------------------------------
(* onUserGroupsCreate and onUserGroupsDelete behind the member writes of   *)
(* joins, leaves, kicks and the cascade of a group deletion                *)

\* two groups, g1 with its creator u1, both users registered
InitUserGroups ==
    /\ payments = NoPayments
    /\ groups = [g \in GroupIds |->
                    IF g = "g1" THEN [NewGroup EXCEPT !.numMembers = 1]
                    ELSE NewGroup]
    /\ members = [p \in GroupIds \X UserIds |->
                    IF p = <<"g1", "u1">> THEN NewMember("admin") ELSE NoMember]
    /\ expenses = [p \in GroupIds \X ExpenseIds |-> NoExpense]
    /\ users = [u \in UserIds |->
                    [NewUser EXCEPT !.numGroups = NumGroupsOf(members, u)]]
    /\ userExpenses = [p \in UserIds \X ExpenseIds |-> NoUserExpense]
    /\ userPayments = [p \in UserIds \X ExpenseIds |-> NoUserPayment]
    /\ userGroups = [p \in UserIds \X GroupIds |->
                    IF members[p[2], p[1]].exists
                    THEN UserGroupOf(groups[p[2]], members[p[2], p[1]])
                    ELSE NoUserGroup]
    /\ events = {}
    /\ tasks = {}
    /\ writes = {}
    /\ now = 0
    /\ lastCall = Idle
    /\ nCalls = 0
    /\ nextId = 0
    /\ stale = FALSE

NextUserGroups ==
    \/ WriteMember
    \/ onGroupMembersWriteDelete
    \/ onGroupMembersWriteGet
    \/ onGroupMembersWriteSet
    \/ onUserGroupsCreateGet
    \/ onUserGroupsCreateSet
    \/ onUserGroupsDeleteGet
    \/ onUserGroupsDeleteSet

SpecUserGroups == InitUserGroups /\ [][NextUserGroups]_vars

\* the number of UserGroup mirror records under user u
NumUserGroups(u) == Cardinality({g \in GroupIds : userGroups[u, g].exists})

NumGroupsIsCount == \A u \in UserIds : users[u].numGroups = NumUserGroups(u)

\* C21: in every quiescent state reachable by any interleaving of joins,
\* leaves, kicks, group deletions and the handlers they trigger,
\* User.numGroups equals the number of UserGroup mirror records currently
\* under that user.
C21_NumGroupsIsCount == Quiescent => NumGroupsIsCount

\* C21 (amended): the same, for the behaviours in which no onUserGroupsCreate
\* or onUserGroupsDelete invocation wrote numGroups after another invocation
\* had replaced the value it had read.
C21_NumGroupsIsCountUnlessStale == (Quiescent /\ ~stale) => NumGroupsIsCount

\* u2 has joined both groups and each handler ran on a fresh numGroups
C21_Witness ==
    /\ Quiescent
    /\ ~stale
    /\ NumUserGroups("u2") = 2
    /\ users["u2"].numGroups = 2

----------------------------------------------------------------------------
(* The root record users/{uid} under the mirror writes. onUserCreate and   *)
(* onUserDelete create and delete it; a deleted account keeps its Member   *)
(* records                                                                  *)

\* onUserCreate: createUserDocIfNotExists(user.uid)
onUserCreate ==
    \E u \in UserIds :
        /\ nCalls < MaxMirrorWrites
        /\ ~users[u].exists
        /\ users' = createUserDocIfNotExists(users, u)
        /\ nCalls' = nCalls + 1
        /\ UNCHANGED <<payments, groups, members, expenses, userExpenses,
                       userGroups, userPayments, events, tasks, writes, now,
                       lastCall, nextId, stale>>

\* onUserDelete: firestore.doc(`users/${user.uid}`).delete()
onUserDelete ==
    \E u \in UserIds :
        /\ nCalls < MaxMirrorWrites
        /\ users[u].exists
        /\ users' = [users EXCEPT ![u] = NoUser]
        /\ nCalls' = nCalls + 1
        /\ UNCHANGED <<payments, groups, members, expenses, userExpenses,
                       userGroups, userPayments, events, tasks, writes, now,
                       lastCall, nextId, stale>>

NextUserRoot ==
    \/ onUserCreate
    \/ onUserDelete
    \/ WriteMember
    \/ ExpenseTotals
    \/ onGroupMembersWriteDelete
    \/ onGroupMembersWriteGet
    \/ onGroupMembersWriteSet
    \/ onGroupUpdate
    \/ applyUserGroupSet
    \/ onUserGroupsCreateGet
    \/ onUserGroupsCreateSet
    \/ onUserGroupsDeleteGet
    \/ onUserGroupsDeleteSet

SpecUserRoot == InitMirrors /\ [][NextUserRoot]_vars

\* this step writes a record under users/u
WritesUnderUser(u) ==
    \/ \E e \in ExpenseIds :
           /\ userExpenses'[u, e] # userExpenses[u, e]
           /\ userExpenses'[u, e].exists
    \/ \E e \in ExpenseIds :
           /\ userPayments'[u, e] # userPayments[u, e]
           /\ userPayments'[u, e].exists
    \/ \E g \in GroupIds :
           /\ userGroups'[u, g] # userGroups[u, g]
           /\ userGroups'[u, g].exists

\* C22: whenever a handler writes a record under a user (expense mirror,
\* payment mirror or UserGroup mirror), the root record users/{uid} exists
\* at the time of that write, having been created with all counters zero if
\* it was absent; a root record that already exists is left unchanged.
C22_RootExistsAtWrite ==
    [][\A u \in UserIds :
           WritesUnderUser(u) =>
               /\ users'[u].exists
               /\ users'[u] = IF users[u].exists THEN users[u] ELSE NewUser]_vars

----------------------------------------------------------------------------
(* onGroupExpensesWrite for expenses created at once: the handler reads    *)
(* the group, awaits, and ends with a set of the total computed from the   *)
(* group data it read                                                       *)

\* a client adds an expense to g1 while handlers of earlier writes may be
\* running
AddExpense ==
    \E g \in {"g1"}, u \in UserIds, c \in Costs :
        LET e == nextId + 1
            after == ClientExpense(u, c)
        IN  /\ nextId < MaxExpenses
            /\ nCalls < MaxCalls
            /\ groups[g].exists
            /\ expenses' = [expenses EXCEPT ![g, e] = after]
            /\ events' = events \cup GroupExpenseTrigger(g, e, NoExpense, after)
            /\ nextId' = nextId + 1
            /\ nCalls' = nCalls + 1
            /\ lastCall' = Outcome("write", g, u, e, "ok")
            /\ UNCHANGED <<payments, groups, members, users, userExpenses,
                           userGroups, userPayments, tasks, writes, now, stale>>

\* new document created: up to groupData = groupDoc.data()
onGroupExpensesWriteGet ==
    \E ev \in events :
        /\ ev.kind = "groupExpense"
        /\ ~ev.before.exists
        /\ events' = events \ {ev}
        /\ IF ~groups[ev.g].exists
           THEN /\ tasks' = tasks
                /\ lastCall' = Outcome("onGroupExpensesWrite", ev.g,
                                       ev.after.userId, ev.e, "null")
           ELSE /\ tasks' = tasks \cup
                       {[id |-> ev.e, op |-> "onGroupExpensesWrite",
                         g |-> ev.g, ev |-> ev, groupData |-> groups[ev.g]]}
                /\ lastCall' = Outcome("onGroupExpensesWrite", ev.g,
                                       ev.after.userId, ev.e, "pending")
        /\ UNCHANGED <<payments, groups, members, expenses, users,
                       userExpenses, userGroups, userPayments, writes, now,
                       nCalls, nextId, stale>>

\* new document created: from createUserDocIfNotExists to the final
\* groupRef.set of the total computed from groupData
onGroupExpensesWriteSet ==
    \E t \in tasks :
        LET ev == t.ev
            uid == ev.after.userId
            userExpense == UserExpenseOf(ev.g, CostAfter(ev))
        IN  /\ t.op = "onGroupExpensesWrite"
            /\ tasks' = tasks \ {t}
            /\ users' = createUserDocIfNotExists(users, uid)
            /\ userExpenses' = [userExpenses EXCEPT ![uid, ev.e] = userExpense]
            /\ members' = setGroupMemberExpenses(members, ev.g, uid,
                                                 CostBefore(ev), CostAfter(ev))
            /\ groups' = [groups EXCEPT ![ev.g] =
                   [groups[ev.g] EXCEPT
                       !.exists = TRUE,
                       !.totalExpenses = GroupTotalAfter(t.groupData,
                                               CostBefore(ev), CostAfter(ev))]]
            /\ stale' = (stale \/ groups[ev.g].totalExpenses
                                      # t.groupData.totalExpenses)
            /\ events' = events \cup
                   UserExpenseTrigger(uid, ev.e, NoUserExpense, userExpense)
            /\ lastCall' = Outcome("onGroupExpensesWrite", ev.g, uid, ev.e, "ok")
            /\ UNCHANGED <<payments, expenses, userGroups, userPayments,
                           writes, now, nCalls, nextId>>

NextExpenseRace ==
    \/ AddExpense
    \/ onGroupExpensesWriteGet
    \/ onGroupExpensesWriteSet
    \/ onUserExpensesWrite

SpecExpenseRace == InitExpenses /\ [][NextExpenseRace]_vars

GroupTotalIsSum(g) == groups[g].totalExpenses = SumGroupExpenses(g)

\* C23: when the onGroupExpensesWrite handlers of two expenses created in
\* the same group are interleaved, a quiescent state is reachable in which
\* Group.totalExpenses differs from the sum of the costs of the group's
\* expenses, because each handler writes its delta on top of the same stale
\* baseline: a quiescent state has a total off the sum only when a handler
\* wrote on a baseline that had been replaced since it read it (and
\* C23_Witness is such a state).
C23_MismatchOnlyByStaleBaseline ==
    (Quiescent /\ \E g \in GroupIds : ~GroupTotalIsSum(g)) => stale

\* two expenses of g1, both handlers done, and the total is the cost of one
\* of them on top of the baseline 0 both handlers had read
C23_Witness ==
    /\ Quiescent
    /\ stale
    /\ \E e1 \in ExpenseIds, e2 \in ExpenseIds :
           /\ e1 # e2
           /\ expenses["g1", e1].exists
           /\ expenses["g1", e2].exists
           /\ \A e \in ExpenseIds \ {e1, e2} : ~expenses["g1", e].exists
           /\ groups["g1"].totalExpenses = expenses["g1", e2].cost
           /\ SumGroupExpenses("g1") =
                  expenses["g1", e1].cost + expenses["g1", e2].cost
           /\ ~GroupTotalIsSum("g1")

----------------------------------------------------------------------------
(* Where Member records come from: joins and leaves of g1 next to writes   *)
(* of its expenses                                                          *)

NextMemberOrigin ==
    \/ joinGroup
    \/ leaveGroup
    \/ addUserToGroupGet
    \/ addUserToGroupSet
    \/ leaveGroupGet
    \/ leaveGroupDelete
    \/ leaveGroupMembers
    \/ leaveGroupFreeze
    \/ applyFreeze
    \/ onGroupMemberCreateGet
    \/ onGroupMemberCreateSet
    \/ onGroupMemberDeleteGet
    \/ onGroupMemberDeleteSet
    \/ UpdateExpense
    \/ DeleteExpense
    \/ onGroupExpensesWrite
    \/ onUserExpensesWrite

SpecMemberOrigin == InitMembership /\ [][NextMemberOrigin]_vars

\* C24: a Member record exists under a group only for a user who was added
\* by create-group or join-group and has not since left or been kicked: the
\* only step that creates a Member record is the set of addUserToGroup, no
\* trigger handler ever creates one.
C24_MembersOnlyByJoin ==
    [][\A g \in GroupIds, u \in UserIds :
           (~members[g, u].exists /\ members'[g, u].exists) =>
               lastCall'.op \in {"createGroup", "joinGroup"}]_vars

\* C25: once a Group record has been deleted, no handler write re-creates a
\* record at that group's key, whatever the interleaving of the deletion
\* with in-flight handlers that checked the group's existence before it:
\* an absent group document appears only by createGroup.
C25_DeletedGroupStaysDeleted ==
    [][\A g \in GroupIds :
           (~groups[g].exists /\ groups'[g].exists) =>
               lastCall'.op = "createGroup"]_vars

----------------------------------------------------------------------------
(* Successors of the recurrence job: their dates, and a second tick of the *)
(* schedule while the tasks of the first may still be running              *)

\* C26: for every due expense expanded by the recurrence job, whatever its
\* recurringInterval holds (any type, any magnitude including 0), the
\* successor's date is strictly later than the source expense's date.
C26_SuccessorIsLater ==
    \A g \in GroupIds, e \in ExpenseIds :
        (expenses[g, e].exists /\ expenses[g, e].source # 0) =>
            expenses[g, e].date > expenses[g, expenses[g, e].source].date

\* the next tick of the schedule: the job starts again, whatever the tasks
\* of the run before it have done so far
checkRecurringAndBalanceAgain ==
    /\ nCalls = 1
    /\ nCalls' = nCalls + 1
    /\ tasks' = tasks \cup {RecurringTask(g) : g \in {h \in GroupIds : groups[h].exists}}
    /\ UNCHANGED <<payments, groups, members, expenses, users, userExpenses,
                   userGroups, userPayments, events, writes, now, lastCall,
                   nextId, stale>>

NextRecurrenceRuns ==
    \/ NextRecurrence
    \/ checkRecurringAndBalanceAgain

SpecRecurrenceRuns == InitRecurrence /\ [][NextRecurrenceRuns]_vars

\* C27: over any sequence of recurrence-job runs with no store failures,
\* including runs that overlap or that start before the previous run's
\* un-awaited alreadyRecurred write has been applied, and with no user edits
\* of the expense, each expense record is the source of at most one
\* successor record.
C27_AtMostOneSuccessor ==
    \A e \in ExpenseIds : Cardinality(SuccessorsOf(e)) <= 1

----------------------------------------------------------------------------
(* The cascade of write-triggered handlers behind one external write. The  *)
(* store raises the triggers of every document a write has changed; each   *)
(* handler runs from its first line to its return; an event remembers the  *)
(* handlers whose writes led to it                                          *)

Store ==
    [groups |-> groups, members |-> members, expenses |-> expenses,
     payments |-> payments, users |-> users, userExpenses |-> userExpenses,
     userPayments |-> userPayments, userGroups |-> userGroups]

\* the function each trigger is bound to
HandlerOf(kind) ==
    CASE kind = "groupExpense" -> "onGroupExpensesWrite"
      [] kind = "groupPayment" -> "onGroupPaymentsWrite"
      [] kind = "userExpense" -> "onUserExpensesWrite"
      [] kind = "userPayment" -> "onUserPaymentWrite"
      [] kind = "memberWrite" -> "onGroupMembersWrite"
      [] kind = "memberCreate" -> "onGroupMemberCreate"
      [] kind = "memberDelete" -> "onGroupMemberDelete"
      [] kind = "userGroupCreate" -> "onUserGroupsCreate"
      [] kind = "userGroupDelete" -> "onUserGroupsDelete"
      [] kind = "groupUpdate" -> "onGroupUpdate"
      [] kind = "groupDelete" -> "onGroupDelete"

\* the triggers of one document that went from before to after: written
\* (onWrite), created, deleted, updated
Written(kind, g, u, e, before, after, chain) ==
    IF before = after THEN {}
    ELSE {[kind |-> kind, g |-> g, u |-> u, e |-> e, before |-> before,
           after |-> after, chain |-> chain]}

Created(kind, g, u, e, before, after, chain) ==
    IF before.exists \/ ~after.exists THEN {}
    ELSE Written(kind, g, u, e, before, after, chain)

Deleted(kind, g, u, e, before, after, chain) ==
    IF ~before.exists \/ after.exists THEN {}
    ELSE Written(kind, g, u, e, before, after, chain)

\* a set with latestUpdate: new Date() changes the document whatever the
\* other fields hold
Updated(kind, g, before, after, stamped, chain) ==
    IF ~before.exists \/ ~after.exists \/ (before = after /\ ~stamped) THEN {}
    ELSE {[kind |-> kind, g |-> g, u |-> "undefined", e |-> 0,
           before |-> before, after |-> after, chain |-> chain]}

\* the triggers the store raises when the documents go from old to new,
\* the groups of touched having had their latestUpdate set
Triggers(old, new, touched, chain) ==
    UNION ({Written("groupExpense", g, "undefined", e, old.expenses[g, e],
                    new.expenses[g, e], chain)
            \cup Written("groupPayment", g, "undefined", e, old.payments[g, e],
                         new.payments[g, e], chain) :
               g \in GroupIds, e \in ExpenseIds}
      \cup {Written("userExpense", "undefined", u, e, old.userExpenses[u, e],
                    new.userExpenses[u, e], chain)
            \cup Written("userPayment", "undefined", u, e,
                         old.userPayments[u, e], new.userPayments[u, e], chain) :
               u \in UserIds, e \in ExpenseIds}
      \cup {Written("memberWrite", g, u, 0, old.members[g, u],
                    new.members[g, u], chain)
            \cup Created("memberCreate", g, u, 0, old.members[g, u],
                         new.members[g, u], chain)
            \cup Deleted("memberDelete", g, u, 0, old.members[g, u],
                         new.members[g, u], chain)
            \cup Created("userGroupCreate", g, u, 0, old.userGroups[u, g],
                         new.userGroups[u, g], chain)
            \cup Deleted("userGroupDelete", g, u, 0, old.userGroups[u, g],
                         new.userGroups[u, g], chain) :
               g \in GroupIds, u \in UserIds}
      \cup {Updated("groupUpdate", g, old.groups[g], new.groups[g],
                    g \in touched, chain)
            \cup Deleted("groupDelete", g, "undefined", 0, old.groups[g],
                         new.groups[g], chain) :
               g \in GroupIds})

\* what a handler leaves: the documents, and the groups it stamped
Left(store, touched) == [store |-> store, touched |-> touched]

\* onGroupExpensesWrite
EffectGroupExpensesWrite(S, ev) ==
    LET g == ev.g
        uid == ExpenseData(ev).userId
        us == IF ev.after.exists THEN createUserDocIfNotExists(S.users, uid)
              ELSE S.users
        mirror == IF ev.after.exists THEN UserExpenseOf(g, CostAfter(ev))
                  ELSE NoUserExpense
    IN  IF ~S.groups[g].exists THEN Left(S, {})
        ELSE IF ~ev.before.exists /\ S.userExpenses[uid, ev.e].exists
        THEN \* userExpenseRef.create rejects
             Left([S EXCEPT !.users = us], {})
        ELSE Left([S EXCEPT
                 !.users = us,
                 !.userExpenses = [S.userExpenses EXCEPT ![uid, ev.e] = mirror],
                 !.members = setGroupMemberExpenses(S.members, g, uid,
                                 CostBefore(ev), CostAfter(ev)),
                 !.groups = [S.groups EXCEPT ![g] =
                     [S.groups[g] EXCEPT !.totalExpenses =
                         GroupTotalAfter(S.groups[g], CostBefore(ev),
                                         CostAfter(ev))]]],
                  {g})

\* onGroupPaymentsWrite
EffectGroupPaymentsWrite(S, ev) ==
    LET g == ev.g
        uid == ExpenseData(ev).userId
        us == IF ev.after.exists THEN createUserDocIfNotExists(S.users, uid)
              ELSE S.users
        mirror == IF ev.after.exists THEN UserPaymentOf(PaymentAfter(ev))
                  ELSE NoUserPayment
    IN  IF ~S.groups[g].exists THEN Left(S, {})
        ELSE IF ~ev.before.exists /\ S.userPayments[uid, ev.e].exists
        THEN Left([S EXCEPT !.users = us], {})
        ELSE Left([S EXCEPT
                 !.users = us,
                 !.userPayments = [S.userPayments EXCEPT ![uid, ev.e] = mirror],
                 !.members = setGroupMemberPayments(S.members, g, uid,
                                 PaymentBefore(ev), PaymentAfter(ev)),
                 !.groups = [S.groups EXCEPT ![g] =
                     [S.groups[g] EXCEPT !.totalPayments =
                         Delta(S.groups[g].totalPayments, PaymentBefore(ev),
                               PaymentAfter(ev))]]],
                  {g})

\* onUserExpensesWrite
EffectUserExpensesWrite(S, ev) ==
    Left([S EXCEPT !.users = [S.users EXCEPT ![ev.u] =
             SetMerge(S.users[ev.u],
                      updateUserTotalExpenses(S.users[ev.u], CostBefore(ev),
                          CostAfter(ev), ~ev.before.exists))]], {})

\* onUserPaymentWrite
EffectUserPaymentWrite(S, ev) ==
    Left([S EXCEPT !.users = [S.users EXCEPT ![ev.u] =
             SetMerge(S.users[ev.u],
                      updateUserTotalPayments(S.users[ev.u], PaymentBefore(ev),
                          PaymentAfter(ev), ~ev.before.exists))]], {})

EffectGroupMembersWrite_Mark(S, ev) ==
    IF ~ev.after.exists
    THEN Left([S EXCEPT !.userGroups =
                  [S.userGroups EXCEPT ![ev.u, ev.g] = NoUserGroup]], {})
    ELSE IF ~S.groups[ev.g].exists \/ HasUndefined(ev.after) THEN Left(S, {})
    ELSE Left([S EXCEPT
              !.members = [S.members EXCEPT ![ev.g, ev.u] =
                  SetMerge(S.members[ev.g, ev.u], [alreadyRecurred |-> TRUE])],
              !.userGroups = [S.userGroups EXCEPT ![ev.u, ev.g] =
                  SetMerge(S.userGroups[ev.u, ev.g],
                           [personalExpenses |-> ev.after.totalExpenses,
                            personalPayments |-> ev.after.totalPayments])]], {})

\* onGroupMembersWrite
EffectGroupMembersWrite(S, ev) ==
    IF ~ev.after.exists
    THEN Left([S EXCEPT !.userGroups =
                  [S.userGroups EXCEPT ![ev.u, ev.g] = NoUserGroup]], {})
    ELSE IF ~S.groups[ev.g].exists \/ HasUndefined(ev.after) THEN Left(S, {})
    ELSE Left([S EXCEPT !.userGroups = [S.userGroups EXCEPT ![ev.u, ev.g] =
                  SetMerge(S.userGroups[ev.u, ev.g],
                           [personalExpenses |-> ev.after.totalExpenses,
                            personalPayments |-> ev.after.totalPayments])]], {})

\* onGroupMemberCreate, onGroupMemberDelete
EffectGroupMemberCount(S, ev) ==
    IF GroupMissing(S.groups[ev.g]) THEN Left(S, {})
    ELSE Left([S EXCEPT !.groups = [S.groups EXCEPT ![ev.g] =
                  [S.groups[ev.g] EXCEPT !.numMembers =
                      IF ev.kind = "memberCreate"
                      THEN NumMembersAfterCreate(S.groups[ev.g].numMembers)
                      ELSE NumMembersAfterDelete(S.groups[ev.g].numMembers)]]],
              {ev.g})

\* onUserGroupsCreate, onUserGroupsDelete
EffectUserGroupsCount(S, ev) ==
    IF ~S.users[ev.u].exists THEN Left(S, {})
    ELSE Left([S EXCEPT !.users = [S.users EXCEPT ![ev.u] =
                  SetMerge(S.users[ev.u],
                      [numGroups |->
                          IF ev.kind = "userGroupCreate"
                          THEN NumGroupsAfterCreate(S.users[ev.u].numGroups)
                          ELSE NumGroupsAfterDelete(S.users[ev.u].numGroups)])]],
              {})

\* onGroupUpdate: every set of the fan-out applied
EffectGroupUpdate(S, ev) ==
    Left([S EXCEPT !.userGroups =
             [p \in UserIds \X GroupIds |->
                 IF p[2] = ev.g /\ p[1] \in listDocuments(S.members, ev.g)
                 THEN SetMerge(S.userGroups[p],
                               [totalExpenses |-> ev.after.totalExpenses,
                                numMembers |-> ev.after.numMembers])
                 ELSE S.userGroups[p]]], {})

\* onGroupDelete
EffectGroupDelete(S, ev) ==
    Left([S EXCEPT !.members =
             [p \in GroupIds \X UserIds |->
                 IF p[1] = ev.g THEN NoMember ELSE S.members[p]]], {})

\* the documents become those of new, and the store raises the triggers
WriteStore(new, touched, pending, chain) ==
    /\ groups' = new.groups
    /\ members' = new.members
    /\ expenses' = new.expenses
    /\ payments' = new.payments
    /\ users' = new.users
    /\ userExpenses' = new.userExpenses
    /\ userPayments' = new.userPayments
    /\ userGroups' = new.userGroups
    /\ events' = pending \cup Triggers(Store, new, touched, chain)

\* what the handler bound to the trigger ev does to the documents of S
Effect(S, ev) ==
    CASE ev.kind = "groupExpense" -> EffectGroupExpensesWrite(S, ev)
      [] ev.kind = "groupPayment" -> EffectGroupPaymentsWrite(S, ev)
      [] ev.kind = "userExpense" -> EffectUserExpensesWrite(S, ev)
      [] ev.kind = "userPayment" -> EffectUserPaymentWrite(S, ev)
      [] ev.kind = "memberWrite" -> EffectGroupMembersWrite(S, ev)
      [] ev.kind \in {"memberCreate", "memberDelete"} ->
             EffectGroupMemberCount(S, ev)
      [] ev.kind \in {"userGroupCreate", "userGroupDelete"} ->
             EffectUserGroupsCount(S, ev)
      [] ev.kind = "groupUpdate" -> EffectGroupUpdate(S, ev)
      [] ev.kind = "groupDelete" -> EffectGroupDelete(S, ev)

\* one invocation of the handler bound to the triggers of kind
RunHandler(kind) ==
    \E ev \in events :
        /\ ev.kind = kind
        /\ LET left == Effect(Store, ev)
           IN  WriteStore(left.store, left.touched, events \ {ev},
                          Append(ev.chain, HandlerOf(ev.kind)))
        /\ lastCall' = [op |-> HandlerOf(ev.kind), chain |-> ev.chain]
        /\ UNCHANGED <<tasks, writes, now, nCalls, nextId, stale>>

onGroupExpensesWriteRun == RunHandler("groupExpense")

onGroupPaymentsWriteRun == RunHandler("groupPayment")

onUserExpensesWriteRun == RunHandler("userExpense")

onUserPaymentWriteRun == RunHandler("userPayment")

onGroupMembersWriteRun == RunHandler("memberWrite")

onGroupMemberCreateRun == RunHandler("memberCreate")

onGroupMemberDeleteRun == RunHandler("memberDelete")

onUserGroupsCreateRun == RunHandler("userGroupCreate")

onUserGroupsDeleteRun == RunHandler("userGroupDelete")

onGroupUpdateRun == RunHandler("groupUpdate")

onGroupDeleteRun == RunHandler("groupDelete")

\* the documents a client may put at the keys of g1
ExpenseWrites ==
    {NoExpense} \cup {ClientExpense(u, c) : u \in UserIds, c \in {1, 2}}

PaymentWrites ==
    {NoPayment} \cup
    {[exists |-> TRUE, payment |-> c, userId |-> u] : u \in UserIds, c \in {1, 2}}

MemberWrites == {NoMember, NewMember("member")}

GroupWrites == {NoGroup, NewGroup, [NewGroup EXCEPT !.totalExpenses = 2]}

\* the one external write: a create, an update or a delete of an expense,
\* a payment, a member or the group
ExternalWrite ==
    /\ nCalls = 0
    /\ nCalls' = 1
    /\ \E new \in
           {[Store EXCEPT !.expenses = [expenses EXCEPT !["g1", 1] = x]] :
               x \in ExpenseWrites}
           \cup {[Store EXCEPT !.payments = [payments EXCEPT !["g1", 1] = x]] :
                   x \in PaymentWrites}
           \cup {[Store EXCEPT !.members = [members EXCEPT !["g1", u] = x]] :
                   u \in UserIds, x \in MemberWrites}
           \cup {[Store EXCEPT !.groups = [groups EXCEPT !["g1"] = x]] :
                   x \in GroupWrites} :
           /\ new # Store
           /\ WriteStore(new, {}, events, <<>>)
    /\ lastCall' = [op |-> "write", chain |-> <<>>]
    /\ UNCHANGED <<tasks, writes, now, nextId, stale>>

\* any store state: the group, the records of u1 and u2 in it, the user
\* record and the mirror of u1, the first expense and payment, each there
\* or not, consistent or not
InitCascade ==
    \E grp \in BOOLEAN, m1 \in BOOLEAN, m2 \in BOOLEAN, ex \in BOOLEAN,
       usr \in BOOLEAN, ug1 \in BOOLEAN :
      LET pay == ex
          ug2 == m2
      IN
        /\ groups = [g \in GroupIds |->
                        IF g = "g1" /\ grp
                        THEN [NewGroup EXCEPT !.numMembers = 1,
                                              !.totalExpenses = 1,
                                              !.totalPayments = 1]
                        ELSE NoGroup]
        /\ members = [p \in GroupIds \X UserIds |->
                        IF p = <<"g1", "u1">> /\ m1
                        THEN [NewMember("admin") EXCEPT !.totalExpenses = 1,
                                                        !.totalPayments = 1]
                        ELSE IF p = <<"g1", "u2">> /\ m2
                             THEN NewMember("member")
                             ELSE NoMember]
        /\ expenses = [p \in GroupIds \X ExpenseIds |->
                        IF p = <<"g1", 1>> /\ ex THEN ClientExpense("u1", 1)
                        ELSE NoExpense]
        /\ payments = [p \in GroupIds \X ExpenseIds |->
                        IF p = <<"g1", 1>> /\ pay THEN FirstPayment
                        ELSE NoPayment]
        /\ users = [u \in UserIds |->
                        IF u = "u1" /\ ~usr THEN NoUser
                        ELSE [NewUser EXCEPT !.numGroups = 1]]
        /\ userExpenses = [p \in UserIds \X ExpenseIds |->
                        IF p = <<"u1", 1>> /\ ex THEN UserExpenseOf("g1", 1)
                        ELSE NoUserExpense]
        /\ userPayments = [p \in UserIds \X ExpenseIds |->
                        IF p = <<"u1", 1>> /\ pay THEN UserPaymentOf(1)
                        ELSE NoUserPayment]
        /\ userGroups = [p \in UserIds \X GroupIds |->
                        IF (p = <<"u1", "g1">> /\ ug1) \/ (p = <<"u2", "g1">> /\ ug2)
                        THEN UserGroupOf(NewGroup, NewMember("member"))
                        ELSE NoUserGroup]
        /\ events = {}
        /\ tasks = {}
        /\ writes = {}
        /\ now = 0
        /\ lastCall = Idle
        /\ nCalls = 0
        /\ nextId = 1
        /\ stale = FALSE

Handlers ==
    \/ onGroupExpensesWriteRun
    \/ onGroupPaymentsWriteRun
    \/ onUserExpensesWriteRun
    \/ onUserPaymentWriteRun
    \/ onGroupMembersWriteRun
    \/ onGroupMemberCreateRun
    \/ onGroupMemberDeleteRun
    \/ onUserGroupsCreateRun
    \/ onUserGroupsDeleteRun
    \/ onGroupUpdateRun
    \/ onGroupDeleteRun

NextCascade ==
    \/ ExternalWrite
    \/ Handlers

\* the store delivers every trigger it has raised
SpecCascade == InitCascade /\ [][NextCascade]_vars /\ WF_vars(Handlers)

\* the handlers whose writes led to the events of chain
Ancestors(chain) == {chain[i] : i \in 1..Len(chain)}

\* C28: starting from any store state, after a single external write and
\* with no further external writes or job runs, the cascade of
\* write-triggered handlers reaches quiescence: no trigger is ever raised
\* for a handler by a write that this handler caused, directly or
\* transitively, and once the write is made every trigger is eventually
\* handled with none left.
C28_CascadeTerminates ==
    /\ [](\A ev \in events : HandlerOf(ev.kind) \notin Ancestors(ev.chain))
    /\ (nCalls = 1) ~> (events = {})

\* a cascade four handlers deep has ended: an expense write, the Member
\* record its handler created, the group's numMembers, the fan-out that
\* created a mirror, and the numGroups of its user
C28_Witness ==
    /\ nCalls = 1
    /\ events = {}
    /\ lastCall.op = "onUserGroupsCreate"
    /\ lastCall.chain =
           <<"onGroupExpensesWrite", "onGroupMemberCreate", "onGroupUpdate">>

====
